---- MODULE Spec2Model ----
(***************************************************************************)
(* Model of the CoreDNS plugin "zoneawareness".                            *)
(*                                                                         *)
(*   setup      (src/setup.go)   resolves the current availability zone id *)
(*              (IMDSv2, then the AWS_ZONE_ID variable), fills l.Zones     *)
(*              from EC2 subnets and from the Corefile statements, and     *)
(*              adds the plugin to the chain when the current zone has     *)
(*              at least one CIDR.                                         *)
(*   ServeDNS   (src/README.md, lines 211-272) moves the answers whose     *)
(*              address lies in a CIDR of the current zone to the front    *)
(*              and updates three prometheus instruments.                  *)
(*                                                                         *)
(* Strings the code inspects character by character (zone ids, metadata    *)
(* bodies) are sequences of one-character strings.  A CIDR text is a       *)
(* record of its textual parts (family, numeric fields, prefix length).    *)
(* An IP address is a sequence of bytes, 4 or 16 long, as net.IP.          *)
(***************************************************************************)
EXTENDS Integers, Sequences, FiniteSets, TLC

\* ------------------------------------------------------------------------
\* Bounds of the model
\* ------------------------------------------------------------------------
MaxSubnets == 2
MaxV6 == 1
MaxStatements == 2
MaxCidrArgs == 3
MaxAnswers == 2
MaxRequests == 1
MaxFirstRequests == 1
MaxWorkers == 2

\* ------------------------------------------------------------------------
\* Strings
\* ------------------------------------------------------------------------
Lower == {"a","b","c","d","e","f","g","h","i","j","k","l","m",
          "n","o","p","q","r","s","t","u","v","w","x","y","z"}

Digit == {"0","1","2","3","4","5","6","7","8","9"}

Space == {" ", "\t", "\n", "\r"}

EmptyString == << >>

\* MatchTail: the final `-az[0-9]$` of awsZoneIDPattern
MatchTail(t) ==
    /\ Len(t) = 4
    /\ t[1] = "-"
    /\ t[2] = "a"
    /\ t[3] = "z"
    /\ t[4] \in Digit

\* MatchMiddle: the optional group `(-[a-z]{3}[0-9])?` followed by the tail
MatchMiddle(r) ==
    \/ MatchTail(r)
    \/ /\ Len(r) >= 5
       /\ r[1] = "-"
       /\ \A i \in 2..4 : r[i] \in Lower
       /\ r[5] \in Digit
       /\ MatchTail(SubSeq(r, 6, Len(r)))

\* a regular expression that accepts every string
awsZoneIDPatternAny(s) == TRUE

\* awsZoneIDPattern.MatchString: ^[a-z]{2,4}[0-9](-[a-z]{3}[0-9])?-az[0-9]$
awsZoneIDPattern(s) ==
    \E n \in 2..4 :
        /\ Len(s) >= n + 1
        /\ \A i \in 1..n : s[i] \in Lower
        /\ s[n + 1] \in Digit
        /\ MatchMiddle(SubSeq(s, n + 2, Len(s)))

RECURSIVE TrimLeft(_)
TrimLeft(s) ==
    IF s # << >> /\ Head(s) \in Space THEN TrimLeft(Tail(s)) ELSE s

RECURSIVE TrimRight(_)
TrimRight(s) ==
    IF s # << >> /\ s[Len(s)] \in Space
    THEN TrimRight(SubSeq(s, 1, Len(s) - 1))
    ELSE s

\* strings.TrimSpace
TrimSpace(s) == TrimRight(TrimLeft(s))

\* ------------------------------------------------------------------------
\* IP addresses and networks (package net)
\* ------------------------------------------------------------------------
\* number of leading one bits of byte i (1-based) of a mask of `ones` bits
MaskBits(ones, i) ==
    LET k == ones - 8 * (i - 1)
    IN  IF k <= 0 THEN 0 ELSE IF k >= 8 THEN 8 ELSE k

\* b & m, for the byte m whose MaskBits leading bits are set
AndMask(b, k) ==
    IF k = 8 THEN b ELSE IF k = 0 THEN 0 ELSE b - (b % (2 ^ (8 - k)))

\* net.IP.Mask: the address with the bits beyond the prefix cleared
MaskIP(ip, ones) == [i \in 1..Len(ip) |-> AndMask(ip[i], MaskBits(ones, i))]

v4InV6Prefix == <<0, 0, 0, 0, 0, 0, 0, 0, 0, 0, 255, 255>>

\* net.IP.To4: the 4-byte form of an IPv4 address, << >> (nil) otherwise
To4(ip) ==
    IF Len(ip) = 4 THEN ip
    ELSE IF Len(ip) = 16 /\ SubSeq(ip, 1, 12) = v4InV6Prefix
         THEN SubSeq(ip, 13, 16)
         ELSE << >>

\* net.IPv4(a, b, c, d): the 16-byte form of an IPv4 address
IPv4(a, b, c, d) == v4InV6Prefix \o <<a, b, c, d>>

\* the 16 bytes of an IPv6 address given as eight 16-bit groups
RECURSIVE GroupsToBytes(_)
GroupsToBytes(g) ==
    IF g = << >> THEN << >>
    ELSE <<Head(g) \div 256, Head(g) % 256>> \o GroupsToBytes(Tail(g))

\* the value net.ParseCIDR returns with a non-nil error
ParseError == [err |-> TRUE, IP |-> << >>, Ones |-> 0]

\* net.ParseCIDR: the network (masked address, prefix length) of a CIDR
\* text, or an error
ParseCIDR(t) ==
    IF t.fam = "v4"
    THEN IF /\ Len(t.fields) = 4
            /\ \A i \in 1..4 : t.fields[i] \in 0..255
            /\ t.bits \in 0..32
         THEN [err |-> FALSE, IP |-> MaskIP(t.fields, t.bits), Ones |-> t.bits]
         ELSE ParseError
    ELSE IF t.fam = "v6"
    THEN IF /\ Len(t.fields) = 8
            /\ \A i \in 1..8 : t.fields[i] \in 0..65535
            /\ t.bits \in 0..128
         THEN [err |-> FALSE, IP |-> MaskIP(GroupsToBytes(t.fields), t.bits),
               Ones |-> t.bits]
         ELSE ParseError
    ELSE ParseError

\* the network net.ParseCIDR makes of a CIDR text that parses
Net(text) == [IP |-> ParseCIDR(text).IP, Ones |-> ParseCIDR(text).Ones]

\* (*net.IPNet).Contains
Contains(n, ip) ==
    LET x == IF To4(ip) # << >> THEN To4(ip) ELSE ip
    IN  /\ Len(x) = Len(n.IP)
        /\ \A i \in 1..Len(x) :
              AndMask(n.IP[i], MaskBits(n.Ones, i))
                  = AndMask(x[i], MaskBits(n.Ones, i))

\* ------------------------------------------------------------------------
\* Values the environment supplies
\* ------------------------------------------------------------------------
\* "use1-az1", "usw2-az2", "usw2-lax1-az1" and "my-invalid-zone"
ZoneUse1Az1 == <<"u","s","e","1","-","a","z","1">>

ZoneUsw2Az2 == <<"u","s","w","2","-","a","z","2">>

ZoneLocal == <<"u","s","w","2","-","l","a","x","1","-","a","z","1">>

ZoneInvalid == <<"m","y","-","i","n","v","a","l","i","d","-","z","o","n","e">>

RegionUsEast1 == <<"u","s","-","e","a","s","t","-","1">>

\* a *string that is nil
NilText == [fam |-> "nil", fields |-> << >>, bits |-> 0]

\* the string ""
EmptyText == [fam |-> "", fields |-> << >>, bits |-> 0]

\* "10.0.0.0/24", "192.168.1.0/24", "10.0.0.0/33", "172.16.0.0/16",
\* "2001:db8::/64" and "2001:db8::/129"
Cidr10 == [fam |-> "v4", fields |-> <<10, 0, 0, 0>>, bits |-> 24]

Cidr192 == [fam |-> "v4", fields |-> <<192, 168, 1, 0>>, bits |-> 24]

CidrBad33 == [fam |-> "v4", fields |-> <<10, 0, 0, 0>>, bits |-> 33]

Cidr172 == [fam |-> "v4", fields |-> <<172, 16, 0, 0>>, bits |-> 16]

Cidr2001 == [fam |-> "v6", fields |-> <<8193, 3512, 0, 0, 0, 0, 0, 0>>, bits |-> 64]

CidrBad129 == [fam |-> "v6", fields |-> <<8193, 3512, 0, 0, 0, 0, 0, 0>>, bits |-> 129]

\* bodies the metadata service returns for placement/availability-zone-id
AzBodies == {ZoneUse1Az1 \o <<"\n">>, ZoneInvalid, EmptyString}

\* bodies the metadata service returns for placement/region
RegionBodies == {RegionUsEast1 \o <<"\n">>, <<"\n">>}

\* values of the environment variable AWS_ZONE_ID ("" when unset)
EnvValues == {EmptyString, ZoneUsw2Az2, ZoneLocal, ZoneInvalid}

\* all sequences over S of length lo..hi
SeqsOf(S, lo, hi) == UNION {[1..n -> S] : n \in lo..hi}

\* types.Subnet: CidrBlock and the Ipv6CidrBlock of each association
Subnets ==
    [CidrBlock : {NilText, EmptyText, Cidr10, CidrBad33},
     Ipv6CidrBlockAssociationSet : SeqsOf({Cidr2001, CidrBad129}, 0, MaxV6)]

SubnetLists == SeqsOf(Subnets, 0, MaxSubnets)

\* the arguments of one Corefile statement: nothing, or a zone name followed
\* by CIDR texts
ZoneNames == {ZoneUse1Az1, ZoneUsw2Az2, ZoneInvalid}

CidrArgs == {Cidr192, CidrBad33, Cidr172}

Statements ==
    {[zoneName |-> EmptyString, cidrArgs |-> << >>, n |-> 0]}
    \cup [zoneName : ZoneNames, cidrArgs : SeqsOf(CidrArgs, 0, MaxCidrArgs),
          n : {1}]

\* the statements of the Corefiles of TestSetup: `zoneawareness`,
\* `zoneawareness use1-az1`, `zoneawareness use1-az1 192.168.1.0/24
\* 172.16.0.0/16`, `zoneawareness usw2-az2 192.168.1.0/24`, `zoneawareness
\* use1-az1 192.168.1.0/24 10.0.0.0/33 172.16.0.0/16` and `zoneawareness
\* my-invalid-zone 192.168.1.0/24`
CorefileLines ==
    {[zoneName |-> EmptyString, cidrArgs |-> << >>, n |-> 0],
     [zoneName |-> ZoneUse1Az1, cidrArgs |-> << >>, n |-> 1],
     [zoneName |-> ZoneUse1Az1, cidrArgs |-> <<Cidr192, Cidr172>>, n |-> 1],
     [zoneName |-> ZoneUsw2Az2, cidrArgs |-> <<Cidr192>>, n |-> 1],
     [zoneName |-> ZoneUse1Az1, cidrArgs |-> <<Cidr192, CidrBad33, Cidr172>>, n |-> 1],
     [zoneName |-> ZoneInvalid, cidrArgs |-> <<Cidr192>>, n |-> 1]}

\* dns.RR: an A record, an AAAA record, or a record of another type
RRA(a, b, c, d) == [Rrtype |-> "A", A |-> IPv4(a, b, c, d), AAAA |-> << >>]

RRAAAA(g) == [Rrtype |-> "AAAA", A |-> << >>, AAAA |-> GroupsToBytes(g)]

RRCNAME == [Rrtype |-> "CNAME", A |-> << >>, AAAA |-> << >>]

RRs == {RRA(10, 0, 0, 1), RRA(10, 0, 0, 2), RRA(192, 168, 1, 1),
        RRAAAA(<<8193, 3512, 0, 0, 0, 0, 0, 1>>), RRCNAME}

RcodeSuccess == 0

RcodeServerFailure == 2

RcodeNameError == 3

\* dns.Msg: the fields ServeDNS reads
Msgs == [Rcode : {RcodeSuccess, RcodeNameError},
         Answer : SeqsOf(RRs, 0, MaxAnswers)]

\* the successful response with answers 10.0.0.1, 192.168.1.1, 10.0.0.2
ExampleMsg ==
    [Rcode |-> RcodeSuccess,
     Answer |-> <<RRA(10, 0, 0, 1), RRA(192, 168, 1, 1), RRA(10, 0, 0, 2)>>]

\* a *dns.Msg that is nil
NilMsg == [Rcode |-> -1, Answer |-> << >>]

\* ------------------------------------------------------------------------
\* State
\* ------------------------------------------------------------------------
VARIABLES
    pc,                         \* where setup is: "imds", "ec2", "subnet4",
                                \* "subnet6", "zone", "next", "cidr", "add",
                                \* "done" (setup has returned nil), "error"
                                \* (setup has returned an error)
    Zones,                      \* l.Zones: zone id -> Zone.CIDRs
    currentAvailabilityZoneId,  \* l.currentAvailabilityZoneId
    HasSynced,                  \* l.HasSynced
    Next,                       \* l.Next: TRUE once a next handler is set
    Plugin,                     \* dnsserver.Config.Plugin: names of the added plugins
    imds,                       \* what getConfigFromIMDSv2Func returned
    AWS_ZONE_ID,                \* the environment variable AWS_ZONE_ID ("" when unset)
    envRead,                    \* whether setup has called os.Getenv("AWS_ZONE_ID")
    ec2,                        \* outcome of getSubnetsFromEC2Func
    subnets,                    \* the subnets the range loop has not reached yet
    ipv6Assocs,                 \* the IPv6 associations of the subnet in hand not reached yet
    stmts,                      \* number of statements c.Next() has delivered
    zoneName,                   \* args[0] of the statement in hand
    cidrArgs,                   \* the elements of args[1:] not reached yet
    discovered,                 \* history: the networks the well-formed prefixes of the inventory denote, in inventory order
    skipped,                    \* history: number of subnets without any prefix the range loop has passed
    declared,                   \* history: the networks the statements read so far declare for the current zone, in Corefile order
    ignored,                    \* history: number of statements read so far that declare a network for another identifier
    calls,                      \* history: the calls setup has made to the two lookups, with their arguments
    refused,                    \* history: the prefixes of the inventory net.ParseCIDR refused, where the specification keeps them
    rejected,                   \* history: the <<source, text>> pairs of the zone identifiers that failed awsZoneIDPattern and of the CIDR arguments net.ParseCIDR refused
    served,                     \* number of ServeDNS calls so far
    reorderedQueriesCount,      \* value of the counter reordered_queries_total
    reorderCount,               \* value of the counter reorder_count_total
    reorderLatency,             \* number of observations in reorder_duration_seconds
    nx,                         \* what the next handler did in the last call: (rcode, err) and the message it wrote
    wFails,                     \* whether w.WriteMsg fails in the last call
    nextMsg,                    \* the message the next handler wrote, as that handler sees it after the call
    written,                    \* the messages passed to w.WriteMsg during the last call
    ret,                        \* what the last ServeDNS call returned
    workers                     \* the ServeDNS calls that run concurrently: for each its position, the result of its next handler, its writer, its locals, what it wrote and returned

histVars == <<discovered, skipped, declared, ignored, rejected, refused, calls>>

setupVars == <<pc, Zones, currentAvailabilityZoneId, Plugin, imds,
               AWS_ZONE_ID, envRead, ec2, subnets, ipv6Assocs, stmts, zoneName,
               cidrArgs, discovered, skipped, declared, ignored, rejected, refused,
               calls>>

metricVars == <<reorderedQueriesCount, reorderCount, reorderLatency>>

serveVars == <<served, reorderedQueriesCount, reorderCount, reorderLatency,
               nx, wFails, nextMsg, written, ret, workers>>

vars == <<pc, Zones, currentAvailabilityZoneId, HasSynced, Next, Plugin, imds,
          AWS_ZONE_ID, envRead, ec2, subnets, ipv6Assocs, stmts, zoneName, cidrArgs,
          discovered, skipped, declared, ignored, rejected, refused, calls, served,
          reorderedQueriesCount, reorderCount, reorderLatency, nx, wFails,
          nextMsg, written, ret, workers>>

NotCalled == [called |-> FALSE, az |-> EmptyString, region |-> EmptyString,
              err |-> FALSE]

NoReturn == [rcode |-> -1, err |-> FALSE, panic |-> FALSE]

NoCall == [rcode |-> -1, err |-> FALSE, msg |-> [Rcode |-> -1, Answer |-> << >>]]

\* the goroutines of the server that call ServeDNS
Workers == 1..MaxWorkers

\* a call of ServeDNS that has not started: no result of the next handler,
\* empty preferredAnswers and otherAnswers, nothing written or returned
IdleWorker ==
    [pc |-> "idle", nx |-> NoCall, wFails |-> FALSE,
     preferredAnswers |-> << >>, otherAnswers |-> << >>,
     written |-> << >>, ret |-> NoReturn]

IdleWorkers == [w \in Workers |-> IdleWorker]

\* make(map[string]*Zone)
EmptyZones == [z \in {} |-> << >>]

\* Zoneawareness{Zones: make(map[string]*Zone), currentAvailabilityZoneId: ""}
\* before setup has done anything else; the instruments are at zero
Init ==
    /\ pc = "imds"
    /\ Zones = EmptyZones
    /\ currentAvailabilityZoneId = EmptyString
    /\ HasSynced = FALSE
    /\ Next = FALSE
    /\ Plugin = << >>
    /\ imds = NotCalled
    /\ AWS_ZONE_ID \in EnvValues
    /\ envRead = FALSE
    /\ ec2 = "none"
    /\ subnets = << >>
    /\ ipv6Assocs = << >>
    /\ stmts = 0
    /\ zoneName = EmptyString
    /\ cidrArgs = << >>
    /\ discovered = << >>
    /\ skipped = 0
    /\ declared = << >>
    /\ ignored = 0
    /\ rejected = {}
    /\ refused = {}
    /\ calls = << >>
    /\ served = 0
    /\ reorderedQueriesCount = 0
    /\ reorderCount = 0
    /\ reorderLatency = 0
    /\ nx = NoCall
    /\ wFails = FALSE
    /\ nextMsg = NilMsg
    /\ written = << >>
    /\ ret = NoReturn
    /\ workers = IdleWorkers

\* ------------------------------------------------------------------------
\* setup: topology discovery
\* ------------------------------------------------------------------------
\* what a GetMetadata call and the read of its body produce
MetaResponses(bodies) ==
    {[status |-> "get_err", body |-> EmptyString],
     [status |-> "read_err", body |-> EmptyString]}
    \cup [status : {"ok"}, body : bodies]

ImdsError == [called |-> TRUE, az |-> EmptyString, region |-> EmptyString,
              err |-> TRUE]

\* an identity lookup that returns the zone id of the metadata service as it
\* is, without matching it against the pattern
getConfigFromIMDSv2Unvalidated(cfgOk, azResp, regionResp) ==
    IF ~cfgOk THEN ImdsError
    ELSE IF azResp.status # "ok" THEN ImdsError
    ELSE IF regionResp.status # "ok" THEN ImdsError
    ELSE [called |-> TRUE, az |-> TrimSpace(azResp.body),
          region |-> TrimSpace(regionResp.body), err |-> FALSE]

\* getConfigFromIMDSv2: (azID, region, err)
getConfigFromIMDSv2(cfgOk, azResp, regionResp) ==
    IF ~cfgOk THEN ImdsError
    ELSE IF azResp.status # "ok" THEN ImdsError
    ELSE IF ~awsZoneIDPattern(TrimSpace(azResp.body)) THEN ImdsError
    ELSE IF regionResp.status # "ok" THEN ImdsError
    ELSE [called |-> TRUE, az |-> TrimSpace(azResp.body),
          region |-> TrimSpace(regionResp.body), err |-> FALSE]

\* what getSubnetsFromEC2 returns: the subnets of DescribeSubnets, or an
\* error from loading the SDK configuration or from the API
Ec2Results ==
    {[status |-> "cfg_err", Subnets |-> << >>],
     [status |-> "api_err", Subnets |-> << >>]}
    \cup [status : {"ok"}, Subnets : SubnetLists]

\* the text is present and net.ParseCIDR accepts it
WellFormed(text) ==
    /\ text # NilText
    /\ text # EmptyText
    /\ ~ParseCIDR(text).err

\* the text is present and net.ParseCIDR returns an error for it
Malformed(text) ==
    /\ text # NilText
    /\ text # EmptyText
    /\ ParseCIDR(text).err

\* the networks the well-formed texts among `texts` denote, in their order
RECURSIVE ValidNets(_)
ValidNets(texts) ==
    IF texts = << >> THEN << >>
    ELSE (IF WellFormed(Head(texts)) THEN <<Net(Head(texts))>> ELSE << >>)
         \o ValidNets(Tail(texts))

\* the prefixes of one subnet: its CidrBlock, then the Ipv6CidrBlock of each
\* association
SubnetPrefixes(subnet) ==
    <<subnet.CidrBlock>> \o subnet.Ipv6CidrBlockAssociationSet

\* the prefixes of an inventory, subnet by subnet
RECURSIVE InventoryPrefixes(_)
InventoryPrefixes(subs) ==
    IF subs = << >> THEN << >>
    ELSE SubnetPrefixes(Head(subs)) \o InventoryPrefixes(Tail(subs))

\* the subnet carries no IPv4 prefix and no IPv6 prefix
NoPrefix(subnet) ==
    /\ subnet.CidrBlock \in {NilText, EmptyText}
    /\ subnet.Ipv6CidrBlockAssociationSet = << >>

\* the networks a statement declares for the zone `current`: those of its
\* well-formed CIDR arguments, in argument order, when it names that zone
Declares(st, current) ==
    IF st.n = 1 /\ st.zoneName = current
    THEN ValidNets(st.cidrArgs)
    ELSE << >>

\* the statement declares a network for another identifier than `current`
DeclaresElsewhere(st, current) ==
    /\ st.n = 1
    /\ st.zoneName # current
    /\ ValidNets(st.cidrArgs) # << >>

\* a range is put in front of the ranges of the zone
AddCIDRInFront(zones, id, cidr) ==
    IF id \in DOMAIN zones
    THEN [zones EXCEPT ![id] = <<cidr>> \o @]
    ELSE [z \in DOMAIN zones \cup {id} |->
             IF z = id THEN <<cidr>> ELSE zones[z]]

\* a registry that keeps one copy of a range
AddCIDRDeduplicated(zones, id, cidr) ==
    IF id \in DOMAIN zones
    THEN IF \E i \in 1..Len(zones[id]) : zones[id][i] = cidr
         THEN zones
         ELSE [zones EXCEPT ![id] = Append(@, cidr)]
    ELSE [z \in DOMAIN zones \cup {id} |->
             IF z = id THEN <<cidr>> ELSE zones[z]]

\* zone, exists := l.Zones[id]; if !exists { l.Zones[id] = &Zone{} };
\* zone.CIDRs = append(zone.CIDRs, cidr)
AddCIDR(zones, id, cidr) ==
    IF id \in DOMAIN zones
    THEN [zones EXCEPT ![id] = Append(@, cidr)]
    ELSE [z \in DOMAIN zones \cup {id} |->
             IF z = id THEN <<cidr>> ELSE zones[z]]

\* a loop that appends whatever net.ParseCIDR returned for a prefix, without
\* looking at its error
AddDiscoveredUnparsed(zones, id, text) ==
    IF text # NilText /\ text # EmptyText
    THEN AddCIDR(zones, id, [IP |-> ParseCIDR(text).IP, Ones |-> ParseCIDR(text).Ones])
    ELSE zones

\* a loop that makes the entry of the zone before it parses the prefix, so
\* that a prefix that does not parse leaves an entry without a range
AddDiscoveredEagerZone(zones, id, text) ==
    IF text # NilText /\ text # EmptyText
    THEN IF ~ParseCIDR(text).err
         THEN AddCIDR(zones, id, [IP |-> ParseCIDR(text).IP, Ones |-> ParseCIDR(text).Ones])
         ELSE IF id \in DOMAIN zones THEN zones
         ELSE [z \in DOMAIN zones \cup {id} |->
                  IF z = id THEN << >> ELSE zones[z]]
    ELSE zones

\* a discovered CIDR text is parsed when it is neither nil nor "", and
\* appended to the zone when it parses
AddDiscovered(zones, id, text) ==
    IF text # NilText /\ text # EmptyText /\ ~ParseCIDR(text).err
    THEN AddCIDR(zones, id, [IP |-> ParseCIDR(text).IP, Ones |-> ParseCIDR(text).Ones])
    ELSE zones

\* a loop that ends at the first subnet without a further IPv6 block
AfterBlockStopsEarly(assocs, rest) ==
    IF assocs # << >> THEN "subnet6"
    ELSE "zone"

\* where setup goes after a subnet's IPv4 block or one of its IPv6 blocks
AfterBlock(assocs, rest) ==
    IF assocs # << >> THEN "subnet6"
    ELSE IF rest # << >> THEN "subnet4"
    ELSE "zone"

\* a setup that takes the zone of the identity lookup without looking at
\* the region
UsesIdentityWithoutRegion(r) == ~r.err /\ r.az # EmptyString

\* err == nil && instanceAvailabilityZoneId != "" && instanceRegion != ""
\* (setup.go 58-60)
UsesIdentity(r) ==
    /\ ~r.err
    /\ r.az # EmptyString
    /\ r.region # EmptyString

\* setup.go 57-62: the identity lookup
SetupIdentityLookup ==
    /\ pc = "imds"
    /\ \E cfgOk \in BOOLEAN, azResp \in MetaResponses(AzBodies),
          regionResp \in MetaResponses(RegionBodies) :
          LET r == getConfigFromIMDSv2(cfgOk, azResp, regionResp)
          IN  /\ imds' = r
              /\ IF UsesIdentity(r)
                 THEN /\ currentAvailabilityZoneId' = r.az
                      /\ pc' = "ec2"
                 ELSE /\ currentAvailabilityZoneId' = currentAvailabilityZoneId
                      /\ pc' = "zone"
              /\ rejected' = IF cfgOk /\ azResp.status = "ok"
                                 /\ ~awsZoneIDPattern(TrimSpace(azResp.body))
                              THEN rejected \cup {<<"imds", TrimSpace(azResp.body)>>}
                              ELSE rejected
    /\ UNCHANGED <<Zones, HasSynced, Next, Plugin, AWS_ZONE_ID, envRead, ec2,
                   subnets, ipv6Assocs, stmts, zoneName, cidrArgs>>
    /\ calls' = Append(calls, [fn |-> "getConfigFromIMDSv2Func",
                                azID |-> EmptyString, region |-> EmptyString])
    /\ UNCHANGED <<discovered, skipped, declared, ignored, refused>>
    /\ UNCHANGED serveVars

\* a setup that gives up when the inventory lookup fails
AfterDescribeReturnsOnError(status, subs) ==
    IF status # "ok" THEN "done"
    ELSE IF subs # << >> THEN "subnet4"
    ELSE "zone"

\* a setup that calls the inventory lookup again when the API failed
AfterDescribeRetries(status, subs) ==
    IF status = "api_err" THEN "ec2"
    ELSE IF status = "ok" /\ subs # << >> THEN "subnet4"
    ELSE "zone"

\* where setup goes after getSubnetsFromEC2: into the loop over the subnets,
\* or, on an error or with no subnet, on to the current zone (setup.go 66-72)
AfterDescribe(status, subs) ==
    IF status = "ok" /\ subs # << >> THEN "subnet4" ELSE "zone"

\* setup.go 65-72: the inventory lookup
SetupDescribeSubnets ==
    /\ pc = "ec2"
    /\ \E r \in Ec2Results :
          /\ ec2' = r.status
          /\ subnets' = r.Subnets
          /\ discovered' = ValidNets(InventoryPrefixes(r.Subnets))
          /\ pc' = AfterDescribe(r.status, r.Subnets)
    /\ UNCHANGED <<Zones, currentAvailabilityZoneId, HasSynced, Next, Plugin,
                   imds, AWS_ZONE_ID, envRead, ipv6Assocs, stmts, zoneName,
                   cidrArgs>>
    /\ calls' = Append(calls, [fn |-> "getSubnetsFromEC2Func",
                                azID |-> currentAvailabilityZoneId,
                                region |-> imds.region])
    /\ UNCHANGED <<skipped, declared, ignored, rejected, refused>>
    /\ UNCHANGED serveVars

\* setup.go 72-89: the IPv4 CIDR block of the next subnet; `history` says
\* whether the refused prefixes are kept
SubnetIPv4(history) ==
    /\ pc = "subnet4"
    /\ Zones' = AddDiscovered(Zones, currentAvailabilityZoneId,
                              Head(subnets).CidrBlock)
    /\ ipv6Assocs' = Head(subnets).Ipv6CidrBlockAssociationSet
    /\ subnets' = Tail(subnets)
    /\ pc' = AfterBlock(ipv6Assocs', subnets')
    /\ UNCHANGED <<currentAvailabilityZoneId, HasSynced, Next, Plugin, imds,
                   AWS_ZONE_ID, envRead, ec2, stmts, zoneName, cidrArgs>>
    /\ skipped' = (IF pc' = "zone" THEN 0
                   ELSE IF NoPrefix(Head(subnets)) THEN skipped + 1
                   ELSE skipped)
    /\ refused' = (IF history /\ Malformed(Head(subnets).CidrBlock)
                   THEN refused \cup {Head(subnets).CidrBlock}
                   ELSE refused)
    /\ UNCHANGED <<discovered, declared, ignored, rejected, calls>>
    /\ UNCHANGED serveVars

SetupSubnetIPv4 == SubnetIPv4(FALSE)

InventorySubnetIPv4 == SubnetIPv4(TRUE)

\* setup.go 92-109: the next IPv6 CIDR block of the subnet in hand
SubnetIPv6(history) ==
    /\ pc = "subnet6"
    /\ Zones' = AddDiscovered(Zones, currentAvailabilityZoneId,
                              Head(ipv6Assocs))
    /\ ipv6Assocs' = Tail(ipv6Assocs)
    /\ pc' = AfterBlock(ipv6Assocs', subnets)
    /\ UNCHANGED <<currentAvailabilityZoneId, HasSynced, Next, Plugin, imds,
                   AWS_ZONE_ID, envRead, ec2, subnets, stmts, zoneName,
                   cidrArgs>>
    /\ skipped' = (IF pc' = "zone" THEN 0 ELSE skipped)
    /\ refused' = (IF history /\ Malformed(Head(ipv6Assocs))
                   THEN refused \cup {Head(ipv6Assocs)}
                   ELSE refused)
    /\ UNCHANGED <<discovered, declared, ignored, rejected, calls>>
    /\ UNCHANGED serveVars

SetupSubnetIPv6 == SubnetIPv6(FALSE)

InventorySubnetIPv6 == SubnetIPv6(TRUE)

\* ------------------------------------------------------------------------
\* setup: current zone, static configuration, activation
\* ------------------------------------------------------------------------
\* an override that is consulted whatever the identity lookup gave
SetupZoneFromEnvAlways ==
    /\ pc = "zone"
    /\ envRead' = TRUE
    /\ currentAvailabilityZoneId' =
           IF awsZoneIDPattern(AWS_ZONE_ID) THEN AWS_ZONE_ID
           ELSE currentAvailabilityZoneId
    /\ pc' = IF currentAvailabilityZoneId' = EmptyString THEN "done" ELSE "next"
    /\ UNCHANGED <<Zones, HasSynced, Next, Plugin, imds, AWS_ZONE_ID, ec2,
                   subnets, ipv6Assocs, stmts, zoneName, cidrArgs>>
    /\ UNCHANGED histVars
    /\ UNCHANGED serveVars

\* setup.go 114-125: the AWS_ZONE_ID override, consulted only when the
\* current zone is still ""; setup returns nil when it stays ""
SetupZoneFromEnv ==
    /\ pc = "zone"
    /\ IF currentAvailabilityZoneId = EmptyString
       THEN /\ envRead' = TRUE
            /\ currentAvailabilityZoneId' =
                   IF awsZoneIDPattern(AWS_ZONE_ID) THEN AWS_ZONE_ID
                   ELSE EmptyString
       ELSE UNCHANGED <<envRead, currentAvailabilityZoneId>>
    /\ pc' = IF currentAvailabilityZoneId' = EmptyString THEN "done" ELSE "next"
    /\ rejected' = IF currentAvailabilityZoneId = EmptyString
                       /\ ~awsZoneIDPattern(AWS_ZONE_ID)
                    THEN rejected \cup {<<"env", AWS_ZONE_ID>>}
                    ELSE rejected
    /\ UNCHANGED <<Zones, HasSynced, Next, Plugin, imds, AWS_ZONE_ID, ec2,
                   subnets, ipv6Assocs, stmts, zoneName, cidrArgs>>
    /\ UNCHANGED <<discovered, skipped, declared, ignored, refused, calls>>
    /\ UNCHANGED serveVars

\* a test of the statement that leaves out the comparison with the current zone
StatementAcceptedAnyZone(st, current) ==
    /\ st.n + Len(st.cidrArgs) >= 2
    /\ awsZoneIDPattern(st.zoneName)

\* a merge that takes every statement whose zone name is well formed,
\* whichever zone it names
StatementAcceptedByPattern(st, current) ==
    /\ st.n + Len(st.cidrArgs) >= 2
    /\ awsZoneIDPattern(st.zoneName)

\* the statement is for the current zone and its zone name is well formed
\* (setup.go 131-146)
StatementAccepted(st, current) ==
    /\ st.n + Len(st.cidrArgs) >= 2
    /\ st.zoneName = current
    /\ awsZoneIDPattern(st.zoneName)

\* setup.go 128-148: c.Next() delivers the next statement, one of `lines`,
\* or the Corefile has no further statement
NextStatement(lines) ==
    /\ pc = "next"
    /\ \/ /\ stmts < MaxStatements
          /\ \E st \in lines :
                /\ stmts' = stmts + 1
                /\ declared' = declared \o Declares(st, currentAvailabilityZoneId)
                /\ ignored' = ignored + (IF DeclaresElsewhere(st, currentAvailabilityZoneId)
                                         THEN 1 ELSE 0)
                /\ rejected' = IF st.n + Len(st.cidrArgs) >= 2
                                   /\ ~awsZoneIDPattern(st.zoneName)
                                THEN rejected \cup {<<"statement", st.zoneName>>}
                                ELSE rejected
                /\ IF StatementAccepted(st, currentAvailabilityZoneId)
                   THEN /\ zoneName' = st.zoneName
                        /\ cidrArgs' = st.cidrArgs
                        /\ pc' = "cidr"
                   ELSE /\ UNCHANGED <<zoneName, cidrArgs>>
                        /\ pc' = "next"
       \/ /\ stmts >= 1
          /\ pc' = "add"
          /\ UNCHANGED <<stmts, zoneName, cidrArgs, declared, ignored, rejected>>
    /\ UNCHANGED <<Zones, currentAvailabilityZoneId, HasSynced, Next, Plugin,
                   imds, AWS_ZONE_ID, envRead, ec2, subnets, ipv6Assocs>>
    /\ UNCHANGED <<discovered, skipped, refused, calls>>
    /\ UNCHANGED serveVars

\* the statements of a Corefile of TestSetup
SetupNextStatement == NextStatement(CorefileLines)

\* any statement within the bounds
SetupAnyStatement == NextStatement(Statements)

\* a CIDR argument is appended to the zone without looking at the error of
\* net.ParseCIDR
AddStaticUnchecked(zones, id, text) ==
    AddCIDR(zones, id, [IP |-> ParseCIDR(text).IP, Ones |-> ParseCIDR(text).Ones])

\* a CIDR argument is appended to the zone when it parses (setup.go 151-165)
AddStatic(zones, id, text) ==
    IF ~ParseCIDR(text).err
    THEN AddCIDR(zones, id, [IP |-> ParseCIDR(text).IP, Ones |-> ParseCIDR(text).Ones])
    ELSE zones

\* a setup that returns plugin.Error for a CIDR argument that does not parse
AfterCidrArgStrict(text, rest) ==
    IF ParseCIDR(text).err THEN "error"
    ELSE IF rest = << >> THEN "next"
    ELSE "cidr"

\* where setup goes after a CIDR argument, whether it parsed or not: to the
\* next argument, or back to c.Next() (setup.go 150-166; the return of line
\* 155 is commented out)
AfterCidrArg(text, rest) ==
    IF rest = << >> THEN "next" ELSE "cidr"

\* setup.go 150-166: the next CIDR argument of the statement in hand
SetupCidrArg ==
    /\ pc = "cidr"
    /\ Zones' = AddStatic(Zones, zoneName, Head(cidrArgs))
    /\ cidrArgs' = Tail(cidrArgs)
    /\ pc' = AfterCidrArg(Head(cidrArgs), cidrArgs')
    /\ rejected' = IF ParseCIDR(Head(cidrArgs)).err
                    THEN rejected \cup {<<"cidr", Head(cidrArgs)>>}
                    ELSE rejected
    /\ UNCHANGED <<currentAvailabilityZoneId, HasSynced, Next, Plugin, imds,
                   AWS_ZONE_ID, envRead, ec2, subnets, ipv6Assocs, stmts,
                   zoneName>>
    /\ UNCHANGED <<discovered, skipped, declared, ignored, refused, calls>>
    /\ UNCHANGED serveVars

\* an activation test that ignores the zone table
ShouldAddPluginAlways(zones, current) == TRUE

\* currentZoneData, ok := l.Zones[l.currentAvailabilityZoneId];
\* ok && len(currentZoneData.CIDRs) > 0   (setup.go 171)
ShouldAddPlugin(zones, current) ==
    /\ current \in DOMAIN zones
    /\ Len(zones[current]) > 0

\* a setup that marks the instance as synced itself, whether or not it adds
\* the plugin to the chain
SetupAddPluginMarksSynced ==
    /\ pc = "add"
    /\ Plugin' = IF ShouldAddPlugin(Zones, currentAvailabilityZoneId)
                 THEN Append(Plugin, "zoneawareness")
                 ELSE Plugin
    /\ HasSynced' = TRUE
    /\ pc' = "done"
    /\ UNCHANGED <<Zones, currentAvailabilityZoneId, Next, imds,
                   AWS_ZONE_ID, envRead, ec2, subnets, ipv6Assocs, stmts,
                   zoneName, cidrArgs>>
    /\ UNCHANGED histVars
    /\ UNCHANGED serveVars

\* setup.go 170-185: add the plugin to the chain, or not; return nil
SetupAddPlugin ==
    /\ pc = "add"
    /\ Plugin' = IF ShouldAddPlugin(Zones, currentAvailabilityZoneId)
                 THEN Append(Plugin, "zoneawareness")
                 ELSE Plugin
    /\ pc' = "done"
    /\ UNCHANGED <<Zones, currentAvailabilityZoneId, HasSynced, Next, imds,
                   AWS_ZONE_ID, envRead, ec2, subnets, ipv6Assocs, stmts,
                   zoneName, cidrArgs>>
    /\ UNCHANGED histVars
    /\ UNCHANGED serveVars

\* setup.go 172-180: the server builds its handler chain and calls the
\* function setup added, with the next handler (nil when there is none).
\* setup has returned by then: its locals are gone.
AddPluginClosure ==
    /\ pc = "done"
    /\ Plugin # << >>
    /\ ~HasSynced
    /\ HasSynced' = TRUE
    /\ \E next \in BOOLEAN : Next' = next
    /\ imds' = NotCalled
    /\ ec2' = "none"
    /\ stmts' = 0
    /\ zoneName' = EmptyString
    /\ discovered' = << >>
    /\ declared' = << >>
    /\ ignored' = 0
    /\ rejected' = {}
    /\ calls' = << >>
    /\ UNCHANGED <<skipped, refused>>
    /\ UNCHANGED <<pc, Zones, currentAvailabilityZoneId, Plugin, AWS_ZONE_ID,
                   envRead, subnets, ipv6Assocs, cidrArgs>>
    /\ UNCHANGED serveVars

\* ------------------------------------------------------------------------
\* ServeDNS
\* ------------------------------------------------------------------------
\* extractRRIP: the address of an A or AAAA record, << >> (nil) otherwise
extractRRIP(rr) ==
    IF rr.Rrtype = "A" THEN rr.A
    ELSE IF rr.Rrtype = "AAAA" THEN rr.AAAA
    ELSE << >>

\* ipMatchesCIDRs
ipMatchesCIDRs(ip, cidrs) ==
    \E i \in 1..Len(cidrs) : Contains(cidrs[i], ip)

\* the condition of README.md 241, for a zone table that exists
IsPreferred(rr, cidrs) ==
    /\ extractRRIP(rr) # << >>
    /\ ipMatchesCIDRs(extractRRIP(rr), cidrs)

NoAnswers == [preferredAnswers |-> << >>, otherAnswers |-> << >>]

\* a loop that leaves out the records without an address
RECURSIVE PartitionDropsOpaque(_, _, _)
PartitionDropsOpaque(answers, cidrs, acc) ==
    IF answers = << >> THEN acc
    ELSE PartitionDropsOpaque(Tail(answers), cidrs,
             IF IsPreferred(Head(answers), cidrs)
             THEN [acc EXCEPT !.preferredAnswers = Append(@, Head(answers))]
             ELSE IF extractRRIP(Head(answers)) = << >> THEN acc
             ELSE [acc EXCEPT !.otherAnswers = Append(@, Head(answers))])

\* a loop that puts each preferred answer in front of the ones found before
RECURSIVE PartitionPrepend(_, _, _)
PartitionPrepend(answers, cidrs, acc) ==
    IF answers = << >> THEN acc
    ELSE PartitionPrepend(Tail(answers), cidrs,
             IF IsPreferred(Head(answers), cidrs)
             THEN [acc EXCEPT !.preferredAnswers = <<Head(answers)>> \o @]
             ELSE [acc EXCEPT !.otherAnswers = Append(@, Head(answers))])

\* the loop of README.md 239-247 over the answers not reached yet
RECURSIVE Partition(_, _, _)
Partition(answers, cidrs, acc) ==
    IF answers = << >> THEN acc
    ELSE Partition(Tail(answers), cidrs,
             IF IsPreferred(Head(answers), cidrs)
             THEN [acc EXCEPT !.preferredAnswers = Append(@, Head(answers))]
             ELSE [acc EXCEPT !.otherAnswers = Append(@, Head(answers))])

\* a concatenation that puts the other answers first
ConcatenateOthersFirst(parts) == parts.otherAnswers \o parts.preferredAnswers

\* append(preferredAnswers, otherAnswers...)   (README.md 261)
Concatenate(parts) == parts.preferredAnswers \o parts.otherAnswers

\* an overwrite without pw.msg.Copy(): the answers are assigned to the message
\* the next handler wrote
OverwriteAnswerInPlace(msg, answers) ==
    [final |-> [msg EXCEPT !.Answer = answers],
     original |-> [msg EXCEPT !.Answer = answers]]

\* pw.msg = pw.msg.Copy(); pw.msg.Answer = answers   (README.md 260-261):
\* the message written, and the message of the next handler afterwards
OverwriteAnswer(msg, answers) ==
    [final |-> [msg EXCEPT !.Answer = answers], original |-> msg]

\* e.Zones[e.currentAvailabilityZoneId].CIDRs is a nil dereference when the
\* map has no entry for the current zone; it is evaluated for the first
\* answer that carries an address
Dereferences(zones, current, answers) ==
    /\ current \notin DOMAIN zones
    /\ \E i \in 1..Len(answers) : extractRRIP(answers[i]) # << >>

\* writeFinalResponse: (rcode, err)
writeFinalResponse(wErr) ==
    IF wErr
    THEN [rcode |-> RcodeServerFailure, err |-> TRUE, panic |-> FALSE]
    ELSE [rcode |-> RcodeSuccess, err |-> FALSE, panic |-> FALSE]

\* a call whose recording writer also forwards the message of the next
\* handler, so that the client gets it before the final response
PassThroughForwarded(msg, wErr) ==
    [written |-> <<msg, msg>>, nextMsg |-> msg, ret |-> writeFinalResponse(wErr),
     queries |-> 0, records |-> 0, observations |-> 0]

\* a call that writes msg through and touches no instrument
PassThrough(msg, wErr) ==
    [written |-> <<msg>>, nextMsg |-> msg, ret |-> writeFinalResponse(wErr),
     queries |-> 0, records |-> 0, observations |-> 0]

\* a call without preferred answer that counts as a reordered query
NoPreferredCounted(msg, wErr) ==
    [PassThrough(msg, wErr) EXCEPT !.observations = 1, !.queries = 1]

\* a call without preferred answer that observes no latency
NoPreferredUnobserved(msg, wErr) == PassThrough(msg, wErr)

\* the instruments a call that found no preferred answer updates
\* (README.md 251-257)
NoPreferred(msg, wErr) ==
    [PassThrough(msg, wErr) EXCEPT !.observations = 1]

\* a reordering call that adds the number of answers to reorder_count_total
ReorderedCountsAll(msg, parts, wErr) ==
    [written |-> <<OverwriteAnswer(msg, Concatenate(parts)).final>>,
     nextMsg |-> OverwriteAnswer(msg, Concatenate(parts)).original,
     ret |-> writeFinalResponse(wErr),
     queries |-> 1,
     records |-> Len(msg.Answer),
     observations |-> 1]

\* the instruments a call that reordered updates (README.md 251, 264, 267)
Reordered(msg, parts, wErr) ==
    [written |-> <<OverwriteAnswer(msg, Concatenate(parts)).final>>,
     nextMsg |-> OverwriteAnswer(msg, Concatenate(parts)).original,
     ret |-> writeFinalResponse(wErr),
     queries |-> 1,
     records |-> Len(parts.preferredAnswers),
     observations |-> 1]

\* a next handler that has written the example response, or nothing
\* (NilMsg), and returns (rcode, err), failing or not
ExampleResults ==
    [rcode : {RcodeSuccess, RcodeServerFailure}, err : BOOLEAN,
     msg : {NilMsg, ExampleMsg}]

\* what the next handler does: it returns (rcode, err) and has written msg
\* to the ResponsePrinter, or nothing
NextResults ==
    ExampleResults \cup [rcode : {RcodeSuccess}, err : {FALSE}, msg : Msgs]

\* the ranges of every zone of the registry, one zone after the other
RECURSIVE AllRanges(_, _)
AllRanges(zones, ids) ==
    IF ids = {} THEN << >>
    ELSE LET z == CHOOSE x \in ids : TRUE
         IN  zones[z] \o AllRanges(zones, ids \ {z})

\* a table made of the ranges of all zones
AnyZoneTable(zones, current) == AllRanges(zones, DOMAIN zones)

\* e.Zones[e.currentAvailabilityZoneId].CIDRs   (README.md 241), for a
\* registry that has the zone
ZoneTable(zones, current) ==
    IF current \in DOMAIN zones THEN zones[current] ELSE << >>

\* a status test that takes every response for a success
IsErrorResponseNever(msg) == FALSE

\* pw.msg.Rcode != dns.RcodeSuccess   (README.md 223)
IsErrorResponse(msg) == msg.Rcode # RcodeSuccess

\* a length test that lets only the empty answer list through
SkipsReorderingEmptyOnly(msg) == Len(msg.Answer) = 0

\* len(pw.msg.Answer) <= 1   (README.md 228)
SkipsReordering(msg) == Len(msg.Answer) <= 1

\* README.md 211-272: one call of ServeDNS on the engine (zones, current,
\* hasNext), where the next handler behaves as r and w.WriteMsg fails
\* when e
ServeOutcome(zones, current, hasNext, r, e) ==
    IF ~hasNext
    THEN [written |-> << >>, nextMsg |-> NilMsg,
          ret |-> [rcode |-> RcodeServerFailure, err |-> TRUE, panic |-> FALSE],
          queries |-> 0, records |-> 0, observations |-> 0]
    ELSE IF r.err \/ r.msg = NilMsg
    THEN [written |-> << >>, nextMsg |-> r.msg,
          ret |-> [rcode |-> r.rcode, err |-> r.err, panic |-> FALSE],
          queries |-> 0, records |-> 0, observations |-> 0]
    ELSE IF IsErrorResponse(r.msg)
    THEN PassThrough(r.msg, e)
    ELSE IF SkipsReordering(r.msg)
    THEN PassThrough(r.msg, e)
    ELSE IF Dereferences(zones, current, r.msg.Answer)
    THEN [written |-> << >>, nextMsg |-> r.msg,
          ret |-> [rcode |-> -1, err |-> FALSE, panic |-> TRUE],
          queries |-> 0, records |-> 0, observations |-> 0]
    ELSE LET cidrs == ZoneTable(zones, current)
             parts == Partition(r.msg.Answer, cidrs, NoAnswers)
         IN  IF Len(parts.preferredAnswers) = 0
             THEN NoPreferred(r.msg, e)
             ELSE Reordered(r.msg, parts, e)

\* a ServeDNS that drops the first range of the current zone with each call
ServeConsumesRange(limit, results) ==
    /\ HasSynced
    /\ served < limit
    /\ \E r \in (IF Next THEN results ELSE {NoCall}),
          e \in (IF Next THEN BOOLEAN ELSE {FALSE}) :
          \E o \in {ServeOutcome(Zones, currentAvailabilityZoneId, Next, r, e)} :
              /\ nx' = r
              /\ wFails' = e
              /\ written' = o.written
              /\ nextMsg' = o.nextMsg
              /\ ret' = o.ret
              /\ reorderedQueriesCount' = reorderedQueriesCount + o.queries
              /\ reorderCount' = reorderCount + o.records
              /\ reorderLatency' = reorderLatency + o.observations
    /\ served' = served + 1
    /\ Zones' = [z \in DOMAIN Zones |->
                    IF z = currentAvailabilityZoneId /\ Zones[z] # << >>
                    THEN Tail(Zones[z]) ELSE Zones[z]]
    /\ UNCHANGED <<HasSynced, Next, workers>>
    /\ UNCHANGED <<pc, currentAvailabilityZoneId, Plugin, imds, AWS_ZONE_ID,
                   envRead, ec2, subnets, ipv6Assocs, stmts, zoneName, cidrArgs>>
    /\ UNCHANGED histVars

\* ServeDNS is called on the handler the server put in its chain, whose next
\* handler behaves as one of `results`; without a next handler
\* plugin.NextOrFailure calls nothing, and nothing is written.  The model
\* stops after `limit` calls.
Serve(limit, results) ==
    /\ HasSynced
    /\ served < limit
    /\ \E r \in (IF Next THEN results ELSE {NoCall}),
          e \in (IF Next THEN BOOLEAN ELSE {FALSE}) :
          \E o \in {ServeOutcome(Zones, currentAvailabilityZoneId, Next, r, e)} :
              /\ nx' = r
              /\ wFails' = e
              /\ written' = o.written
              /\ nextMsg' = o.nextMsg
              /\ ret' = o.ret
              /\ reorderedQueriesCount' = reorderedQueriesCount + o.queries
              /\ reorderCount' = reorderCount + o.records
              /\ reorderLatency' = reorderLatency + o.observations
    /\ served' = served + 1
    /\ UNCHANGED <<HasSynced, Next, workers>>
    /\ UNCHANGED setupVars

\* the first requests the server hands to the handler after building its
\* chain, answered with the example response or not at all
ServeFirst == Serve(MaxFirstRequests, ExampleResults)

\* a request on an engine that is serving
ServeDNS == Serve(MaxRequests, NextResults)

\* ------------------------------------------------------------------------
\* ServeDNS, called concurrently
\* ------------------------------------------------------------------------
\* the successful response with answers CNAME, 192.168.1.1
CnameMsg == [Rcode |-> RcodeSuccess, Answer |-> <<RRCNAME, RRA(192, 168, 1, 1)>>]

\* the name error response without answers
NameErrorMsg == [Rcode |-> RcodeNameError, Answer |-> << >>]

\* what the next handler does for the concurrent requests
WorkerResults ==
    {[rcode |-> RcodeSuccess, err |-> FALSE, msg |-> ExampleMsg],
     [rcode |-> RcodeSuccess, err |-> FALSE, msg |-> CnameMsg],
     [rcode |-> RcodeSuccess, err |-> FALSE, msg |-> NameErrorMsg],
     [rcode |-> RcodeServerFailure, err |-> TRUE, msg |-> NilMsg]}

\* an update of an instrument by a worker that read it before any other
\* worker wrote it
CounterAddStale(value, n) == n

\* Counter.Inc, Counter.Add and Histogram.Observe of the prometheus client:
\* one atomic update of the instrument
CounterAdd(value, n) == value + n

\* the call returns: what it wrote, and (rcode, err)
WorkerReturns(wk, msgs, r) ==
    [wk EXCEPT !.pc = "done", !.written = msgs, !.ret = r]

\* README.md 212-248: the call of the next handler with the worker's own
\* ResponsePrinter, the early returns, and the loop over the answers, which
\* reads the zone table and fills the locals preferredAnswers, otherAnswers
WorkerNextOrFailure(w) ==
    /\ HasSynced
    /\ workers[w].pc = "idle"
    /\ \E r \in (IF Next THEN WorkerResults ELSE {NoCall}),
          e \in (IF Next THEN BOOLEAN ELSE {FALSE}) :
          LET wk == [workers[w] EXCEPT !.nx = r, !.wFails = e]
              cidrs == IF currentAvailabilityZoneId \in DOMAIN Zones
                       THEN Zones[currentAvailabilityZoneId] ELSE << >>
              parts == Partition(r.msg.Answer, cidrs, NoAnswers)
          IN  workers' = [workers EXCEPT ![w] =
                  IF ~Next
                  THEN WorkerReturns(wk, << >>,
                           [rcode |-> RcodeServerFailure, err |-> TRUE, panic |-> FALSE])
                  ELSE IF r.err \/ r.msg = NilMsg
                  THEN WorkerReturns(wk, << >>,
                           [rcode |-> r.rcode, err |-> r.err, panic |-> FALSE])
                  ELSE IF IsErrorResponse(r.msg) \/ SkipsReordering(r.msg)
                  THEN WorkerReturns(wk, <<r.msg>>, writeFinalResponse(e))
                  ELSE IF Dereferences(Zones, currentAvailabilityZoneId, r.msg.Answer)
                  THEN WorkerReturns(wk, << >>,
                           [rcode |-> -1, err |-> FALSE, panic |-> TRUE])
                  ELSE [wk EXCEPT !.pc = "observe",
                                  !.preferredAnswers = parts.preferredAnswers,
                                  !.otherAnswers = parts.otherAnswers]]
    /\ UNCHANGED <<HasSynced, Next, served, nx, wFails, nextMsg, written, ret>>
    /\ UNCHANGED metricVars
    /\ UNCHANGED setupVars

\* README.md 251-257: the latency is observed; without preferred answers the
\* message of the next handler is written and the call returns
WorkerObserve(w) ==
    /\ workers[w].pc = "observe"
    /\ reorderLatency' = CounterAdd(reorderLatency, 1)
    /\ workers' = [workers EXCEPT ![w] =
           IF Len(@.preferredAnswers) = 0
           THEN WorkerReturns(@, <<@.nx.msg>>, writeFinalResponse(@.wFails))
           ELSE [@ EXCEPT !.pc = "inc"]]
    /\ UNCHANGED <<HasSynced, Next, served, nx, wFails, nextMsg, written, ret>>
    /\ UNCHANGED <<reorderedQueriesCount, reorderCount>>
    /\ UNCHANGED setupVars

\* README.md 260-264: the copy gets the concatenated answers, and
\* reordered_queries_total is incremented
WorkerInc(w) ==
    /\ workers[w].pc = "inc"
    /\ reorderedQueriesCount' = CounterAdd(reorderedQueriesCount, 1)
    /\ workers' = [workers EXCEPT ![w].pc = "add"]
    /\ UNCHANGED <<HasSynced, Next, served, nx, wFails, nextMsg, written, ret>>
    /\ UNCHANGED <<reorderCount, reorderLatency>>
    /\ UNCHANGED setupVars

\* README.md 267-271: reorder_count_total grows by the number of preferred
\* answers, the copy is written and the call returns
WorkerAdd(w) ==
    /\ workers[w].pc = "add"
    /\ reorderCount' = CounterAdd(reorderCount, Len(workers[w].preferredAnswers))
    /\ workers' = [workers EXCEPT ![w] =
           WorkerReturns(@,
               <<OverwriteAnswer(@.nx.msg,
                     Concatenate([preferredAnswers |-> @.preferredAnswers,
                                  otherAnswers |-> @.otherAnswers])).final>>,
               writeFinalResponse(@.wFails))]
    /\ UNCHANGED <<HasSynced, Next, served, nx, wFails, nextMsg, written, ret>>
    /\ UNCHANGED <<reorderedQueriesCount, reorderLatency>>
    /\ UNCHANGED setupVars

\* ------------------------------------------------------------------------
\* Specifications
\* ------------------------------------------------------------------------
\* Spec: setup, the construction of the handler chain, and the first requests
NextStep ==
    \/ SetupIdentityLookup
    \/ SetupDescribeSubnets
    \/ SetupSubnetIPv4
    \/ SetupSubnetIPv6
    \/ SetupZoneFromEnv
    \/ SetupNextStatement
    \/ SetupCidrArg
    \/ SetupAddPlugin
    \/ AddPluginClosure
    \/ ServeFirst

Spec == Init /\ [][NextStep]_vars

\* SpecSetup: one call of setup, from its first line to its return. setup is
\* sequential code that the server runs to its end: each step is taken once
\* it can be
SetupStep ==
    \/ SetupIdentityLookup
    \/ SetupDescribeSubnets
    \/ SetupSubnetIPv4
    \/ SetupSubnetIPv6
    \/ SetupZoneFromEnv
    \/ SetupNextStatement
    \/ SetupCidrArg
    \/ SetupAddPlugin

SpecSetup == Init /\ [][SetupStep]_vars /\ WF_vars(SetupStep)

\* SpecInventory: setup up to the statement loop, with the history of the
\* prefixes the range loop refused
NextInventory ==
    \/ SetupIdentityLookup
    \/ SetupDescribeSubnets
    \/ InventorySubnetIPv4
    \/ InventorySubnetIPv6
    \/ SetupZoneFromEnv

SpecInventory == Init /\ [][NextInventory]_vars

\* engines setup activates: subnet discovery alone, discovery followed by a
\* Corefile statement, and AWS_ZONE_ID with a Corefile statement
Engines ==
    {[current |-> ZoneUse1Az1, env |-> EmptyString, envRead |-> FALSE,
      Zones |-> AddDiscovered(EmptyZones, ZoneUse1Az1, Cidr10)],
     [current |-> ZoneUse1Az1, env |-> EmptyString, envRead |-> FALSE,
      Zones |-> AddStatic(AddDiscovered(AddDiscovered(EmptyZones, ZoneUse1Az1, Cidr10),
                                        ZoneUse1Az1, Cidr2001),
                          ZoneUse1Az1, Cidr192)],
     [current |-> ZoneUsw2Az2, env |-> ZoneUsw2Az2, envRead |-> TRUE,
      Zones |-> AddStatic(EmptyZones, ZoneUsw2Az2, Cidr192)]}

\* an engine in the chain of a running server, before its first request
InitServe ==
    /\ pc = "done"
    /\ \E e \in Engines :
          /\ Zones = e.Zones
          /\ currentAvailabilityZoneId = e.current
          /\ AWS_ZONE_ID = e.env
          /\ envRead = e.envRead
    /\ HasSynced = TRUE
    /\ Next \in BOOLEAN
    /\ Plugin = <<"zoneawareness">>
    /\ imds = NotCalled
    /\ ec2 = "none"
    /\ subnets = << >>
    /\ ipv6Assocs = << >>
    /\ stmts = 0
    /\ zoneName = EmptyString
    /\ cidrArgs = << >>
    /\ discovered = << >>
    /\ skipped = 0
    /\ declared = << >>
    /\ ignored = 0
    /\ rejected = {}
    /\ refused = {}
    /\ calls = << >>
    /\ served = 0
    /\ reorderedQueriesCount = 0
    /\ reorderCount = 0
    /\ reorderLatency = 0
    /\ nx = NoCall
    /\ wFails = FALSE
    /\ nextMsg = NilMsg
    /\ written = << >>
    /\ ret = NoReturn
    /\ workers = IdleWorkers

\* SpecServe: a sequence of requests on an engine setup activated
NextServe == ServeDNS

SpecServe == InitServe /\ [][NextServe]_vars

\* SpecConcurrent: the server calls ServeDNS from several goroutines on an
\* engine setup activated; their steps interleave in any order
NextConcurrent ==
    \E w \in Workers :
        \/ WorkerNextOrFailure(w)
        \/ WorkerObserve(w)
        \/ WorkerInc(w)
        \/ WorkerAdd(w)

SpecConcurrent == InitServe /\ [][NextConcurrent]_vars

\* registries built by hand, as TestZoneawarenessCases builds them: two zones
\* with their ranges, a current zone without any range, and a registry
\* without the current zone
Registries ==
    {[z \in {ZoneUse1Az1, ZoneUsw2Az2} |->
         IF z = ZoneUse1Az1 THEN <<Net(Cidr10), Net(Cidr2001)>>
         ELSE <<Net(Cidr192)>>],
     [z \in {ZoneUse1Az1, ZoneUsw2Az2} |->
         IF z = ZoneUse1Az1 THEN << >>
         ELSE <<Net(Cidr10), Net(Cidr192)>>],
     [z \in {ZoneUsw2Az2} |-> <<Net(Cidr10)>>]}

\* an engine built by hand around one of the registries, with a next handler
InitCases ==
    /\ pc = "done"
    /\ Zones \in Registries
    /\ currentAvailabilityZoneId \in {ZoneUse1Az1, ZoneUsw2Az2}
    /\ AWS_ZONE_ID = EmptyString
    /\ envRead = FALSE
    /\ HasSynced = TRUE
    /\ Next = TRUE
    /\ Plugin = <<"zoneawareness">>
    /\ imds = NotCalled
    /\ ec2 = "none"
    /\ subnets = << >>
    /\ ipv6Assocs = << >>
    /\ stmts = 0
    /\ zoneName = EmptyString
    /\ cidrArgs = << >>
    /\ discovered = << >>
    /\ skipped = 0
    /\ declared = << >>
    /\ ignored = 0
    /\ rejected = {}
    /\ refused = {}
    /\ calls = << >>
    /\ served = 0
    /\ reorderedQueriesCount = 0
    /\ reorderCount = 0
    /\ reorderLatency = 0
    /\ nx = NoCall
    /\ wFails = FALSE
    /\ nextMsg = NilMsg
    /\ written = << >>
    /\ ret = NoReturn
    /\ workers = IdleWorkers

\* SpecCases: requests on an engine built by hand
NextCases == ServeDNS

SpecCases == InitCases /\ [][NextCases]_vars

\* where setup can be when it reaches the loop over the statements: the
\* inventory failed, the inventory gave an IPv4 and an IPv6 prefix, or the
\* zone comes from AWS_ZONE_ID
LoopStarts ==
    {[current |-> ZoneUse1Az1, env |-> ZoneUsw2Az2, envRead |-> FALSE,
      imds |-> [called |-> TRUE, az |-> ZoneUse1Az1, region |-> RegionUsEast1,
                err |-> FALSE],
      ec2 |-> "api_err", texts |-> << >>],
     [current |-> ZoneUse1Az1, env |-> EmptyString, envRead |-> FALSE,
      imds |-> [called |-> TRUE, az |-> ZoneUse1Az1, region |-> RegionUsEast1,
                err |-> FALSE],
      ec2 |-> "ok", texts |-> <<Cidr10, Cidr2001>>],
     [current |-> ZoneUse1Az1, env |-> EmptyString, envRead |-> FALSE,
      imds |-> [called |-> TRUE, az |-> ZoneUse1Az1, region |-> RegionUsEast1,
                err |-> FALSE],
      ec2 |-> "ok", texts |-> <<Cidr192>>],
     [current |-> ZoneUsw2Az2, env |-> ZoneUsw2Az2, envRead |-> TRUE,
      imds |-> ImdsError, ec2 |-> "none", texts |-> << >>]}

\* the zones discovery leaves after appending the networks of `texts`
RECURSIVE DiscoveredZones(_, _, _)
DiscoveredZones(zones, id, texts) ==
    IF texts = << >> THEN zones
    ELSE DiscoveredZones(AddDiscovered(zones, id, Head(texts)), id, Tail(texts))

\* setup at the loop over the statements of the Corefile (setup.go 128)
InitStatic ==
    /\ pc = "next"
    /\ \E e \in LoopStarts :
          /\ Zones = DiscoveredZones(EmptyZones, e.current, e.texts)
          /\ discovered = ValidNets(e.texts)
          /\ currentAvailabilityZoneId = e.current
          /\ AWS_ZONE_ID = e.env
          /\ envRead = e.envRead
          /\ imds = e.imds
          /\ ec2 = e.ec2
    /\ HasSynced = FALSE
    /\ Next = FALSE
    /\ Plugin = << >>
    /\ subnets = << >>
    /\ ipv6Assocs = << >>
    /\ stmts = 0
    /\ zoneName = EmptyString
    /\ cidrArgs = << >>
    /\ skipped = 0
    /\ declared = << >>
    /\ ignored = 0
    /\ rejected = {}
    /\ refused = {}
    /\ calls = << >>
    /\ served = 0
    /\ reorderedQueriesCount = 0
    /\ reorderCount = 0
    /\ reorderLatency = 0
    /\ nx = NoCall
    /\ wFails = FALSE
    /\ nextMsg = NilMsg
    /\ written = << >>
    /\ ret = NoReturn
    /\ workers = IdleWorkers

\* SpecStatic: the merge of the static configuration, statement by
\* statement, and the activation that follows
NextStatic ==
    \/ SetupAnyStatement
    \/ SetupCidrArg
    \/ SetupAddPlugin
    \/ AddPluginClosure

SpecStatic == InitStatic /\ [][NextStatic]_vars

\* ------------------------------------------------------------------------
\* Properties of ServeDNS
\* ------------------------------------------------------------------------
\* the range table ServeDNS consults
CurrentCIDRs ==
    IF currentAvailabilityZoneId \in DOMAIN Zones
    THEN Zones[currentAvailabilityZoneId]
    ELSE << >>

\* the last call got a message from the next handler, and no error
Answered == served > 0 /\ Next /\ ~nx.err /\ nx.msg # NilMsg

\* the answers of the upstream message of the last call
UpstreamAnswers == nx.msg.Answer

\* the positions of the preferred records among the upstream answers
PreferredPositions ==
    {i \in 1..Len(UpstreamAnswers) : IsPreferred(UpstreamAnswers[i], CurrentCIDRs)}

\* the last call got a successful response with at least two answers
Classified ==
    /\ Answered
    /\ nx.msg.Rcode = RcodeSuccess
    /\ Len(UpstreamAnswers) >= 2

\* the last call was a non-trivial reorder
NonTrivial == Classified /\ PreferredPositions # {}

\* a step is a call of ServeDNS
IsCall == served' = served + 1

Bijections(n) ==
    {f \in [1..n -> 1..n] : \A i, j \in 1..n : i # j => f[i] # f[j]}

\* out is inp with the records at positions P moved to the front, the
\* records at P and the records outside P each in their input order
IsStablePartition(out, inp, P) ==
    /\ Len(out) = Len(inp)
    /\ \E f \in Bijections(Len(inp)) :
          /\ \A i \in 1..Len(inp) : out[f[i]] = inp[i]
          /\ \A i, j \in 1..Len(inp) :
                /\ (i \in P /\ j \notin P) => f[i] < f[j]
                /\ (i < j /\ i \in P /\ j \in P) => f[i] < f[j]
                /\ (i < j /\ i \notin P /\ j \notin P) => f[i] < f[j]

\* C1: after a call whose upstream response is successful, has two or more
\* answers and at least one preferred answer, exactly one message has been
\* written; its answers are a permutation of the upstream answers in which
\* every preferred record precedes every other record and both classes keep
\* their input order; nothing else of the message differs.
C1_StablePartition ==
    NonTrivial =>
        /\ Len(written) = 1
        /\ written[1].Rcode = nx.msg.Rcode
        /\ IsStablePartition(written[1].Answer, UpstreamAnswers, PreferredPositions)

C1_Witness ==
    /\ NonTrivial
    /\ Len(UpstreamAnswers) = 3
    /\ Cardinality(PreferredPositions) = 2
    /\ written[1].Answer # UpstreamAnswers

\* C2: a call whose upstream response is successful, has two or more answers
\* and no preferred answer writes the upstream message as it is, and changes
\* neither reordered_queries_total nor reorder_count_total.
C2_NoMatchUnchanged ==
    [][(IsCall /\ Classified' /\ PreferredPositions' = {}) =>
          /\ written' = <<nx'.msg>>
          /\ reorderedQueriesCount' = reorderedQueriesCount
          /\ reorderCount' = reorderCount]_vars

C2_Witness ==
    /\ Classified
    /\ PreferredPositions = {}
    /\ \E i \in 1..Len(UpstreamAnswers) : extractRRIP(UpstreamAnswers[i]) # << >>
    /\ reorderLatency > 0

C4_ShortUnchanged ==
    [][(IsCall /\ Answered' /\ Len(UpstreamAnswers') <= 1) =>
          /\ written' = <<nx'.msg>>
          /\ UNCHANGED metricVars]_vars

C4_Witness ==
    /\ Answered
    /\ nx.msg.Rcode = RcodeSuccess
    /\ Len(UpstreamAnswers) = 1
    /\ PreferredPositions = {1}
    /\ written = <<nx.msg>>

\* C5: a call whose upstream response has a status other than success
\* writes that message as it is, whatever its answers, updates none of the
\* three instruments, and returns an error only when the write itself fails.
C5_ErrorResponseUntouched ==
    [][(IsCall /\ Answered' /\ nx'.msg.Rcode # RcodeSuccess) =>
          /\ written' = <<nx'.msg>>
          /\ nextMsg' = nx'.msg
          /\ UNCHANGED metricVars
          /\ ~ret'.panic
          /\ ret'.err = wFails'
          /\ ret'.rcode = (IF wFails' THEN RcodeServerFailure ELSE RcodeSuccess)]_vars

C5_Witness ==
    /\ Answered
    /\ nx.msg.Rcode = RcodeNameError
    /\ Len(UpstreamAnswers) >= 2
    /\ 1 \notin PreferredPositions
    /\ PreferredPositions # {}
    /\ written = <<nx.msg>>
    /\ ~ret.err

\* the engine whose only range is 10.0.0.0/24 got the answers 10.0.0.1,
\* 192.168.1.1, 10.0.0.2
IsExample == Answered /\ nx.msg = ExampleMsg /\ CurrentCIDRs = <<Net(Cidr10)>>

\* C6: a non-trivial reorder adds 1 to reordered_queries_total and the number
\* of preferred records of the response to reorder_count_total; with the
\* range 10.0.0.0/24 and the answers 10.0.0.1, 192.168.1.1, 10.0.0.2 the
\* answers written are 10.0.0.1, 10.0.0.2, 192.168.1.1 and the additions
\* are 1 and 2.
C6_Increments ==
    [][IsCall =>
          /\ NonTrivial' =>
                /\ reorderedQueriesCount' = reorderedQueriesCount + 1
                /\ reorderCount' = reorderCount + Cardinality(PreferredPositions')
          /\ IsExample' =>
                /\ written'[1].Answer =
                       <<RRA(10, 0, 0, 1), RRA(10, 0, 0, 2), RRA(192, 168, 1, 1)>>
                /\ reorderedQueriesCount' = reorderedQueriesCount + 1
                /\ reorderCount' = reorderCount + 2]_vars

C6_Witness ==
    /\ IsExample
    /\ served = 1
    /\ reorderedQueriesCount = 1
    /\ reorderCount = 2

\* the message ServeDNS writes when the next handler answers msg
Rewritten(msg) ==
    ServeOutcome(Zones, currentAvailabilityZoneId, TRUE,
                 [rcode |-> RcodeSuccess, err |-> FALSE, msg |-> msg],
                 FALSE).written

\* C7: a message ServeDNS has written is written unchanged when it is
\* served again: reordering the reordered answers changes nothing.
C7_Idempotent ==
    (Answered /\ written # << >>) => Rewritten(written[1]) = written

C7_Witness ==
    /\ NonTrivial
    /\ Cardinality(PreferredPositions) >= 2
    /\ written[1].Answer # UpstreamAnswers
    /\ Rewritten(written[1]) = written

\* ------------------------------------------------------------------------
\* Properties of setup
\* ------------------------------------------------------------------------
\* the registry has an entry for the current zone that holds a range
CurrentZoneHasRange ==
    /\ currentAvailabilityZoneId \in DOMAIN Zones
    /\ Zones[currentAvailabilityZoneId] # << >>

\* setup has returned
SetupReturned == pc = "done"

\* the plugin is in the handler chain
PluginAdded == Plugin # << >>

\* C8: once setup has returned, the plugin is in the handler chain exactly
\* when the registry has an entry for the current zone with at least one
\* range; the plugin is never in the chain before; and every request an
\* activated engine has served found that entry present and non-empty, so
\* that no call dereferenced a missing zone.
C8_AddedIffCurrentZoneHasRange ==
    /\ SetupReturned => (PluginAdded <=> CurrentZoneHasRange)
    /\ PluginAdded => (SetupReturned /\ CurrentZoneHasRange)
    /\ HasSynced => PluginAdded
    /\ served > 0 => (HasSynced /\ CurrentZoneHasRange /\ ~ret.panic)

C8_Witness ==
    /\ SetupReturned
    /\ PluginAdded
    /\ NonTrivial
    /\ Len(CurrentCIDRs) >= 2
    /\ envRead

\* the identity lookup gave an identifier setup uses (setup.go 60)
IdentityYields ==
    /\ imds.called
    /\ ~imds.err
    /\ imds.az # EmptyString
    /\ imds.region # EmptyString

\* C9: a current zone that is set is never set again; when the identity
\* lookup yields an identifier, that identifier is the current zone and
\* AWS_ZONE_ID is not read, whatever it holds; AWS_ZONE_ID is read only
\* after an identity lookup that yielded nothing, and the current zone then
\* is AWS_ZONE_ID or stays unset.
C9_CurrentZoneSetOnceByPriority ==
    [][/\ currentAvailabilityZoneId # EmptyString
              => currentAvailabilityZoneId' = currentAvailabilityZoneId
       /\ IdentityYields'
              => /\ currentAvailabilityZoneId' = imds'.az
                 /\ ~envRead'
       /\ (envRead' /\ ~envRead)
              => /\ imds'.called
                 /\ ~IdentityYields'
                 /\ currentAvailabilityZoneId' \in {AWS_ZONE_ID', EmptyString}
       /\ (envRead /\ ~HasSynced')
              => ~IdentityYields']_vars

C9_Witness ==
    /\ IdentityYields
    /\ SetupReturned
    /\ PluginAdded
    /\ AWS_ZONE_ID = ZoneUsw2Az2
    /\ currentAvailabilityZoneId = ZoneUse1Az1
    /\ ~envRead

\* the identity lookup failed and AWS_ZONE_ID is unset or no zone identifier
NoZoneSource ==
    /\ imds.called
    /\ imds.err
    /\ AWS_ZONE_ID \in {EmptyString, ZoneInvalid}

\* C10: after a failed identity lookup, with AWS_ZONE_ID unset or not a zone
\* identifier, the current zone stays unset, the inventory is not asked, no
\* statement of the static configuration is read, the registry stays empty,
\* and the plugin is neither added nor activated.
C10_NoSourceNeverActivates ==
    NoZoneSource =>
        /\ currentAvailabilityZoneId = EmptyString
        /\ pc \in {"zone", "done"}
        /\ ec2 = "none"
        /\ stmts = 0
        /\ Zones = EmptyZones
        /\ ~PluginAdded
        /\ ~HasSynced
        /\ served = 0

C10_Witness ==
    /\ NoZoneSource
    /\ AWS_ZONE_ID = ZoneInvalid
    /\ envRead
    /\ SetupReturned
    /\ Zones = EmptyZones
    /\ ~PluginAdded

\* ------------------------------------------------------------------------
\* Properties of the merge of discovery and static configuration
\* ------------------------------------------------------------------------
\* setup is between two statements, or past the last one, and the server has
\* not yet built its chain
BetweenStatements == pc \in {"next", "add", "done"} /\ ~HasSynced

\* C11: the registry never has an entry for another identifier than the
\* current zone; between statements the current zone holds as many ranges
\* as discovery and the statements naming the current zone supplied, so a
\* statement naming another identifier adds none; and when such statements
\* are the only source of ranges the plugin is not added.
C11_OtherZoneContributesNothing ==
    /\ DOMAIN Zones \subseteq {currentAvailabilityZoneId}
    /\ BetweenStatements => Len(CurrentCIDRs) = Len(discovered) + Len(declared)
    /\ (SetupReturned /\ ignored >= 1 /\ discovered = << >> /\ declared = << >>)
           => ~PluginAdded

C11_Witness ==
    /\ SetupReturned
    /\ currentAvailabilityZoneId = ZoneUse1Az1
    /\ stmts >= 1
    /\ ignored = stmts
    /\ Zones = EmptyZones
    /\ ~PluginAdded

\* the ranges of the current zone that follow the discovered ones
StaticPart == SubSeq(CurrentCIDRs, Len(discovered) + 1, Len(CurrentCIDRs))

\* the well-formed CIDR arguments of the statement in hand not reached yet
StillToAppend == IF pc = "cidr" THEN ValidNets(cidrArgs) ELSE << >>

\* C12: at every point of the static merge, the ranges appended so far,
\* followed by the networks of the well-formed arguments of the statement in
\* hand not reached yet, are the networks of all well-formed arguments of the
\* statements for the current zone, in statement and argument order: a
\* malformed argument adds nothing and stops nothing.
C12_MalformedCidrSkipped ==
    ~HasSynced => StaticPart \o StillToAppend = declared

C12_Witness ==
    /\ pc = "cidr"
    /\ stmts = 1
    /\ cidrArgs = <<CidrBad33, Cidr172>>
    /\ StaticPart = <<Net(Cidr192)>>
    /\ declared = <<Net(Cidr192), Net(Cidr172)>>

\* the prefixes of the inventory the loop of setup.go 72-110 has not yet
\* looked at
DiscoveryRemaining ==
    IF pc = "subnet4" THEN InventoryPrefixes(subnets)
    ELSE IF pc = "subnet6" THEN ipv6Assocs \o InventoryPrefixes(subnets)
    ELSE << >>

\* the loop is at an inventory item without an IPv4 and without an IPv6 prefix
AtPrefixlessItem == pc = "subnet4" /\ NoPrefix(Head(subnets))

\* C13: an inventory item that carries neither an IPv4 nor an IPv6 prefix
\* adds nothing to the registry, and the loop goes on with the items after
\* it: the ranges appended so far plus the well-formed prefixes of the items
\* still to come are always the well-formed prefixes of the whole inventory
C13_PrefixlessItemSkipped ==
    /\ [](pc \in {"subnet4", "subnet6"}
            => CurrentCIDRs \o ValidNets(DiscoveryRemaining) = discovered)
    /\ [][AtPrefixlessItem
            => /\ Zones' = Zones
               /\ subnets' = Tail(subnets)
               /\ pc' = (IF Tail(subnets) # << >> THEN "subnet4" ELSE "zone")
          ]_vars

\* the first of two items had no prefix, and the IPv4 prefix of the second
\* has been appended
C13_Witness ==
    /\ pc = "subnet6"
    /\ skipped = 1
    /\ subnets = << >>
    /\ CurrentCIDRs = <<Net(Cidr10)>>
    /\ discovered = <<Net(Cidr10), Net(Cidr2001)>>

\* the identity lookup gave a zone and a region, and getSubnetsFromEC2
\* returned an error (setup.go 65-66)
InventoryFailed == ec2 \in {"cfg_err", "api_err"}

C14_WitnessNotAdded ==
    /\ SetupReturned
    /\ InventoryFailed
    /\ declared = << >>
    /\ ~PluginAdded

\* setup is in the discovery block (setup.go 57-111)
InDiscovery == pc \in {"imds", "ec2", "subnet4", "subnet6"}

\* setup is past the discovery block: at the override, in the statement
\* loop, or at the activation test and after (setup.go 113-185)
PastDiscovery == pc \in {"zone", "next", "cidr", "add", "done"} /\ ~HasSynced

\* C15: the static statements are merged only after discovery is over, and
\* the ranges of the current zone are the discovered ranges, in the order of
\* the inventory items with the IPv4 prefix of an item before its IPv6
\* prefixes, followed by the static ranges in statement and argument order
C15_DiscoveredBeforeStatic ==
    /\ InDiscovery =>
           /\ stmts = 0
           /\ declared = << >>
           /\ CurrentCIDRs \o ValidNets(DiscoveryRemaining) = discovered
    /\ PastDiscovery =>
           CurrentCIDRs \o StillToAppend = discovered \o declared

\* setup has returned with an IPv4 and an IPv6 range from the inventory and
\* two ranges from a statement behind them
C15_Witness ==
    /\ SetupReturned
    /\ discovered = <<Net(Cidr10), Net(Cidr2001)>>
    /\ declared = <<Net(Cidr192), Net(Cidr172)>>
    /\ CurrentCIDRs = <<Net(Cidr10), Net(Cidr2001), Net(Cidr192), Net(Cidr172)>>

\* ------------------------------------------------------------------------
\* Properties of the zone identifiers
\* ------------------------------------------------------------------------
\* C16: in every state each key of the registry matches the zone pattern. An
\* identifier that fails the pattern is rejected whether the identity
\* lookup, the environment or a statement offers it: it never becomes the
\* current zone, the statement loop never takes up a statement naming it,
\* and it never becomes a key of the registry
C16_KeysMatchPattern ==
    /\ \A z \in DOMAIN Zones : awsZoneIDPattern(z)
    /\ DOMAIN Zones \subseteq {currentAvailabilityZoneId}
    /\ currentAvailabilityZoneId # EmptyString
           => awsZoneIDPattern(currentAvailabilityZoneId)
    /\ pc = "cidr" => awsZoneIDPattern(zoneName)
    /\ \A r \in rejected :
           r[1] \in {"imds", "env", "statement"} =>
               /\ r[2] # currentAvailabilityZoneId \/ r[2] = EmptyString
               /\ r[2] \notin DOMAIN Zones

\* the metadata service and a statement both offered my-invalid-zone; the
\* zone came from the environment and holds the range of its own statement
C16_Witness ==
    /\ SetupReturned
    /\ rejected = {<<"imds", ZoneInvalid>>, <<"statement", ZoneInvalid>>}
    /\ currentAvailabilityZoneId = ZoneUsw2Az2
    /\ DOMAIN Zones = {ZoneUsw2Az2}
    /\ CurrentCIDRs = <<Net(Cidr192)>>
    /\ PluginAdded

\* ------------------------------------------------------------------------
\* Properties of the return of setup
\* ------------------------------------------------------------------------
\* setup has returned an error
SetupFailed == pc = "error"

\* C17: whatever fails - the identity lookup, the inventory call, a prefix of
\* the inventory or a CIDR argument that does not parse, a statement with an
\* invalid or another zone name, no zone at all - setup never returns an
\* error, and it runs to its end and returns nil
C17_SetupReturnsNil ==
    /\ [](~SetupFailed)
    /\ <>SetupReturned

\* setup has returned nil after a failed inventory call, a statement with an
\* invalid zone name and a statement with a CIDR argument that does not parse
C17_Witness ==
    /\ SetupReturned
    /\ ec2 = "api_err"
    /\ rejected = {<<"statement", ZoneInvalid>>, <<"cidr", CidrBad33>>}
    /\ CurrentCIDRs = <<Net(Cidr192), Net(Cidr172)>>

\* setup has returned nil after a failed identity lookup and a malformed
\* override
C17_WitnessNoZone ==
    /\ SetupReturned
    /\ imds.err
    /\ rejected = {<<"imds", ZoneInvalid>>, <<"env", ZoneInvalid>>}
    /\ stmts = 0

\* ------------------------------------------------------------------------
\* Properties of readiness
\* ------------------------------------------------------------------------
\* Zoneawareness.Ready: the readiness the plugin reports to the ready plugin
Ready == HasSynced

\* setup has returned without adding the plugin to the chain
NotActivated == SetupReturned /\ ~PluginAdded

C18_WitnessNotActivated ==
    /\ NotActivated
    /\ ~Ready
    /\ currentAvailabilityZoneId = ZoneUse1Az1
    /\ stmts >= 1
    /\ Zones = EmptyZones

\* ------------------------------------------------------------------------
\* Properties of the upstream message
\* ------------------------------------------------------------------------
\* C19: on a non-trivial reorder ServeDNS writes one message, which carries
\* the reordered answers, and leaves the message of the next handler as it
\* was: after the call that message still has its answers in their order
C19_UpstreamNotMutated ==
    NonTrivial =>
        /\ Len(written) = 1
        /\ written[1].Answer = Concatenate(Partition(UpstreamAnswers, CurrentCIDRs, NoAnswers))
        /\ nextMsg = nx.msg
        /\ nextMsg.Answer = UpstreamAnswers

\* a call moved the second of two answers to the front of the message it
\* wrote, and the message of the next handler kept its order
C19_Witness ==
    /\ NonTrivial
    /\ Len(UpstreamAnswers) = 2
    /\ PreferredPositions = {2}
    /\ written[1].Answer = <<UpstreamAnswers[2], UpstreamAnswers[1]>>
    /\ nextMsg.Answer = UpstreamAnswers
    /\ written[1] # nextMsg

\* ------------------------------------------------------------------------
\* Properties of concurrent calls
\* ------------------------------------------------------------------------
\* every concurrent call has returned
AllReturned == \A w \in Workers : workers[w].pc = "done"

\* what a call working alone on the result r, with the writer failing or not,
\* writes for the zone table of the engine
WrittenAlone(r, fails) ==
    ServeOutcome(Zones, currentAvailabilityZoneId, Next, r, fails).written

\* the number of preferred records among the answers the next handler gave
\* to worker w
PreferredCount(w) ==
    Cardinality({i \in 1..Len(workers[w].nx.msg.Answer) :
                    IsPreferred(workers[w].nx.msg.Answer[i], CurrentCIDRs)})

\* the request of worker w is a non-trivial reorder: a successful response
\* with two answers or more, one of them preferred
WorkerNonTrivial(w) ==
    /\ Next
    /\ ~workers[w].nx.err
    /\ workers[w].nx.msg # NilMsg
    /\ workers[w].nx.msg.Rcode = RcodeSuccess
    /\ Len(workers[w].nx.msg.Answer) >= 2
    /\ PreferredCount(w) >= 1

\* the sum of the preferred records of the non-trivial reorders among the
\* workers 1..n
RECURSIVE PreferredSum(_)
PreferredSum(n) ==
    IF n = 0 THEN 0
    ELSE PreferredSum(n - 1) + (IF WorkerNonTrivial(n) THEN PreferredCount(n) ELSE 0)

\* C20: when requests are served concurrently, in any interleaving, what each
\* call writes is what a call working alone writes for the same upstream
\* result and the zone table; and once all calls have returned,
\* reordered_queries_total is the number of non-trivial reorders and
\* reorder_count_total the sum of their preferred records
C20_ConcurrentRequestsIndependent ==
    /\ \A w \in Workers :
           workers[w].pc = "done"
               => workers[w].written = WrittenAlone(workers[w].nx, workers[w].wFails)
    /\ AllReturned =>
           /\ reorderedQueriesCount = Cardinality({w \in Workers : WorkerNonTrivial(w)})
           /\ reorderCount = PreferredSum(MaxWorkers)

\* two calls on the example response and on the CNAME response have both
\* reordered and returned
C20_Witness ==
    /\ AllReturned
    /\ workers[1].nx.msg = ExampleMsg
    /\ workers[2].nx.msg = CnameMsg
    /\ WorkerNonTrivial(1)
    /\ WorkerNonTrivial(2)
    /\ workers[1].written[1].Answer # ExampleMsg.Answer
    /\ workers[2].written[1].Answer = <<RRA(192, 168, 1, 1), RRCNAME>>
    /\ reorderedQueriesCount >= 2
    /\ reorderCount >= 2

\* ------------------------------------------------------------------------
\* Properties of the registry while serving
\* ------------------------------------------------------------------------
\* C21: a call of ServeDNS, whatever the next handler did and whether the
\* write failed or not, leaves the zones of the registry, the ranges of each
\* zone and the current zone identifier as they were
C21_ServeLeavesRegistry ==
    [][IsCall => /\ Zones' = Zones
                 /\ currentAvailabilityZoneId' = currentAvailabilityZoneId]_vars

\* a call has reordered on an engine with three ranges and its write failed
C21_Witness ==
    /\ served >= 1
    /\ NonTrivial
    /\ wFails
    /\ ret.err
    /\ Len(CurrentCIDRs) = 3
    /\ DOMAIN Zones = {currentAvailabilityZoneId}

\* ------------------------------------------------------------------------
\* Properties of the classification
\* ------------------------------------------------------------------------
\* the record carries no A and no AAAA address
Opaque(rr) == extractRRIP(rr) = << >>

\* the record is not preferred for the current zone
IsOther(rr) == ~IsPreferred(rr, CurrentCIDRs)

InCurrentTable(rr) ==
    /\ ~Opaque(rr)
    /\ currentAvailabilityZoneId \in DOMAIN Zones
    /\ \E i \in DOMAIN Zones[currentAvailabilityZoneId] :
           Contains(Zones[currentAvailabilityZoneId][i], extractRRIP(rr))

NotInCurrentTable(rr) == ~InCurrentTable(rr)

\* the call classified the answers against a table the registry has
ClassifiedOnTable ==
    /\ Classified
    /\ currentAvailabilityZoneId \in DOMAIN Zones

\* C23: an address record counts as preferred exactly when a range of the
\* table of the current zone contains its address: the answers written are
\* the records some range of that table contains, then the others; with an
\* empty table nothing is preferred and the response is written as it came;
\* the ranges of the other zones of the registry play no part
C23_PreferredIffInCurrentTable ==
    ClassifiedOnTable =>
        /\ Len(written) = 1
        /\ written[1].Answer = SelectSeq(UpstreamAnswers, InCurrentTable)
                                   \o SelectSeq(UpstreamAnswers, NotInCurrentTable)
        /\ \A i \in 1..Len(UpstreamAnswers) :
               IsPreferred(UpstreamAnswers[i], CurrentCIDRs)
                   <=> InCurrentTable(UpstreamAnswers[i])
        /\ CurrentCIDRs = << >> => written[1] = nx.msg

\* 10.0.0.1 lies in a range of the other zone only and stays behind
\* 192.168.1.1, which lies in a range of the current zone
C23_Witness ==
    /\ ClassifiedOnTable
    /\ currentAvailabilityZoneId = ZoneUsw2Az2
    /\ DOMAIN Zones = {ZoneUse1Az1, ZoneUsw2Az2}
    /\ Zones[ZoneUse1Az1] = <<Net(Cidr10), Net(Cidr2001)>>
    /\ Zones[ZoneUsw2Az2] = <<Net(Cidr192)>>
    /\ UpstreamAnswers = <<RRA(10, 0, 0, 1), RRA(192, 168, 1, 1)>>
    /\ written[1].Answer = <<RRA(192, 168, 1, 1), RRA(10, 0, 0, 1)>>

\* the table of the current zone is empty while the other zone has the range
\* of both answers: the response is written as it came
C23_WitnessEmptyTable ==
    /\ ClassifiedOnTable
    /\ currentAvailabilityZoneId = ZoneUse1Az1
    /\ DOMAIN Zones = {ZoneUse1Az1, ZoneUsw2Az2}
    /\ Zones[ZoneUse1Az1] = << >>
    /\ UpstreamAnswers = <<RRCNAME, RRA(10, 0, 0, 1)>>
    /\ written = <<nx.msg>>
    /\ reorderedQueriesCount = 0

\* ------------------------------------------------------------------------
\* Properties of the prefixes of the inventory
\* ------------------------------------------------------------------------
\* the networks of the prefix texts of the inventory that parse
ValidPrefixNets ==
    {Net(t) : t \in {x \in {Cidr10, CidrBad33, Cidr2001, CidrBad129} : WellFormed(x)}}

\* C24: a prefix of the inventory that does not parse is never inserted, and
\* it stops neither the other prefixes of its item nor the items after it:
\* every range of the zone is the network of a prefix that parses, while the
\* loop runs the ranges appended plus the valid prefixes still ahead are the
\* valid prefixes of the whole inventory, and after the loop the zone holds
\* exactly those
C24_MalformedPrefixSkipped ==
    /\ \A i \in DOMAIN CurrentCIDRs : CurrentCIDRs[i] \in ValidPrefixNets
    /\ \A t \in refused : Net(t) \notin ValidPrefixNets
    /\ pc \in {"subnet4", "subnet6"}
           => CurrentCIDRs \o ValidNets(DiscoveryRemaining) = discovered
    /\ pc \in {"zone", "next", "done"} => CurrentCIDRs = discovered

\* an IPv4 and an IPv6 prefix were refused, and the valid prefix before them
\* and the one after them are both in the zone
C24_Witness ==
    /\ pc = "next"
    /\ refused = {CidrBad33, CidrBad129}
    /\ CurrentCIDRs = <<Net(Cidr10), Net(Cidr2001)>>
    /\ discovered = CurrentCIDRs

\* ------------------------------------------------------------------------
\* Properties of the calls of the two lookups
\* ------------------------------------------------------------------------
IdentityCall ==
    [fn |-> "getConfigFromIMDSv2Func", azID |-> EmptyString, region |-> EmptyString]

IsInventoryCall(c) == c.fn = "getSubnetsFromEC2Func"

InventoryCalls == SelectSeq(calls, IsInventoryCall)

\* C25: in one run of setup the identity lookup is called exactly once, first;
\* the inventory lookup is called at most once, only after the identity
\* lookup returned without error a zone identifier and a region, with
\* exactly these two as arguments; and it is not called when the identity
\* lookup failed or when the override was consulted
C25_LookupsCalledOnce ==
    ~HasSynced =>
        /\ pc = "imds" => calls = << >>
        /\ pc # "imds" => Len(calls) >= 1 /\ calls[1] = IdentityCall
        /\ Len(calls) <= 2
        /\ Len(InventoryCalls) <= 1
        /\ \A i \in 2..Len(calls) : IsInventoryCall(calls[i])
        /\ InventoryCalls # << >> =>
               /\ ~imds.err
               /\ imds.az # EmptyString
               /\ imds.region # EmptyString
               /\ InventoryCalls[1].azID = imds.az
               /\ InventoryCalls[1].region = imds.region
               /\ currentAvailabilityZoneId = imds.az
               /\ ~envRead
        /\ (imds.err \/ envRead) => InventoryCalls = << >>
        /\ (ec2 # "none") <=> (InventoryCalls # << >>)

\* setup has returned after one call of each lookup, the second with the
\* zone and the region the first returned
C25_Witness ==
    /\ SetupReturned
    /\ ~HasSynced
    /\ calls = <<IdentityCall,
                 [fn |-> "getSubnetsFromEC2Func", azID |-> ZoneUse1Az1,
                  region |-> RegionUsEast1]>>
    /\ ec2 = "api_err"

\* setup has returned with the zone of the override and a single call, the
\* one of the identity lookup
C25_WitnessOverride ==
    /\ SetupReturned
    /\ ~HasSynced
    /\ envRead
    /\ currentAvailabilityZoneId = ZoneUsw2Az2
    /\ calls = <<IdentityCall>>
    /\ PluginAdded

\* ------------------------------------------------------------------------
\* Properties of the shape of the registry
\* ------------------------------------------------------------------------
\* C26: during and after setup the registry holds at most one zone, and the
\* key of that zone is the current zone identifier; the discovery writes
\* under the identifier of the identity lookup, and a statement whose CIDR
\* arguments are being merged names the current zone
C26_SingleZoneIsCurrent ==
    /\ Cardinality(DOMAIN Zones) <= 1
    /\ \A z \in DOMAIN Zones :
           z = currentAvailabilityZoneId /\ z # EmptyString
    /\ pc \in {"subnet4", "subnet6"} => currentAvailabilityZoneId = imds.az
    /\ pc = "cidr" => zoneName = currentAvailabilityZoneId

\* setup has returned with one zone, the current one, which holds a
\* discovered and a declared range, after a statement for another zone
C26_Witness ==
    /\ SetupReturned
    /\ DOMAIN Zones = {ZoneUse1Az1}
    /\ currentAvailabilityZoneId = ZoneUse1Az1
    /\ discovered # << >>
    /\ declared # << >>
    /\ ignored >= 1

\* how many times x occurs in seq
Occurrences(seq, x) == Cardinality({i \in 1..Len(seq) : seq[i] = x})

\* the ranges of the texts the model supplies
SuppliedNets == {Net(t) : t \in {Cidr10, Cidr2001, Cidr192, Cidr172}}

\* C27: the registry deduplicates nothing: between statements and after
\* setup every range occurs in the sequence of the current zone as many
\* times as the inventory and the statements for the current zone supplied
\* it with a text that parses, and the length of the sequence is the number
\* of these texts
C27_NothingDeduplicated ==
    BetweenStatements =>
        /\ \A x \in SuppliedNets :
               Occurrences(CurrentCIDRs, x)
                   = Occurrences(discovered, x) + Occurrences(declared, x)
        /\ Len(CurrentCIDRs) = Len(discovered \o declared)
        /\ CurrentCIDRs = discovered \o declared

\* setup has returned with a range that the inventory and a statement both
\* supplied, and the statement twice: the zone holds it three times
C27_Witness ==
    /\ SetupReturned
    /\ discovered = <<Net(Cidr192)>>
    /\ declared = <<Net(Cidr192), Net(Cidr192)>>
    /\ CurrentCIDRs = <<Net(Cidr192), Net(Cidr192), Net(Cidr192)>>
    /\ stmts = 1
    /\ PluginAdded

\* the sequence a is the beginning of the sequence b
IsPrefix(a, b) == Len(a) <= Len(b) /\ SubSeq(b, 1, Len(a)) = a

\* C28: no zone of the registry has an empty sequence of ranges; a step
\* deletes no zone, leaves the sequence of every zone as the beginning of
\* its next value, appends at most one range, and makes a new zone only
\* with its first range
C28_ZonesOnlyAppended ==
    /\ [](\A z \in DOMAIN Zones : Zones[z] # << >>)
    /\ [][/\ DOMAIN Zones \subseteq DOMAIN Zones'
           /\ \A z \in DOMAIN Zones :
                  /\ IsPrefix(Zones[z], Zones'[z])
                  /\ Len(Zones'[z]) <= Len(Zones[z]) + 1
           /\ \A n \in DOMAIN Zones' \ DOMAIN Zones : Len(Zones'[n]) = 1
         ]_vars

\* the discovery made the zone and a statement has extended it by one range
\* and has a further argument in hand
C28_Witness ==
    /\ pc = "cidr"
    /\ Len(discovered) = 2
    /\ Len(CurrentCIDRs) = Len(discovered) + 1
    /\ IsPrefix(discovered, CurrentCIDRs)

\* ------------------------------------------------------------------------
\* Properties of the writes to the client
\* ------------------------------------------------------------------------
\* C29: a call of ServeDNS hands the writer of the client at most one
\* message: exactly one, through writeFinalResponse, when the next handler
\* returned no error and wrote a message, whatever the status and the
\* answers of that message; none when the next handler returned an error or
\* wrote no message, and then the call returns the code and the error of
\* the next handler; none either when there is no next handler
C29_AtMostOneMessage ==
    served > 0 =>
        /\ Len(written) <= 1
        /\ Answered =>
               /\ Len(written) = 1
               /\ ~ret.panic
               /\ ret.err = wFails
               /\ ret.rcode = (IF wFails THEN RcodeServerFailure ELSE RcodeSuccess)
        /\ (Next /\ (nx.err \/ nx.msg = NilMsg)) =>
               /\ written = << >>
               /\ ret.rcode = nx.rcode
               /\ ret.err = nx.err
               /\ ~ret.panic
        /\ ~Next => written = << >> /\ ret.err

\* the next handler returned a code without error and wrote nothing, and
\* the call returned that code having written nothing
C29_WitnessNothingWritten ==
    /\ served > 0
    /\ Next
    /\ ~nx.err
    /\ nx.msg = NilMsg
    /\ nx.rcode = RcodeServerFailure
    /\ ret.rcode = RcodeServerFailure
    /\ ~ret.err
    /\ written = << >>

\* the next handler wrote a refusal with two answers, and the client got
\* that one message although the write returned an error
C29_Witness ==
    /\ Answered
    /\ nx.msg.Rcode # RcodeSuccess
    /\ Len(UpstreamAnswers) >= 2
    /\ wFails
    /\ written = <<nx.msg>>
    /\ ret.err

\* ------------------------------------------------------------------------
\* Properties of an identity lookup without zone or region
\* ------------------------------------------------------------------------
\* what getConfigFromIMDSv2Func can return, the variable being set to
\* getConfigFromIMDSv2 or to a function of a test
LookupResults ==
    [called : {TRUE}, az : {EmptyString, ZoneUse1Az1},
     region : {EmptyString, RegionUsEast1}, err : BOOLEAN]

\* the identity lookup returned no error, and no zone or no region
IdentityIncomplete ==
    /\ imds.called
    /\ ~imds.err
    /\ (imds.az = EmptyString \/ imds.region = EmptyString)

\* setup went from the identity lookup to the override: no inventory
\* lookup, no discovery, and the current zone is empty until the override
\* is read and the valid value of AWS_ZONE_ID, or empty, afterwards
FellThroughToOverride ==
    /\ pc \notin {"imds", "ec2", "subnet4", "subnet6"}
    /\ ec2 = "none"
    /\ discovered = << >>
    /\ ~HasSynced => InventoryCalls = << >>
    /\ pc = "zone" => currentAvailabilityZoneId = EmptyString /\ ~envRead
    /\ pc # "zone" =>
           /\ envRead
           /\ currentAvailabilityZoneId
                  = (IF awsZoneIDPattern(AWS_ZONE_ID) THEN AWS_ZONE_ID
                     ELSE EmptyString)

\* C30: an identity lookup that returns no error but an empty zone
\* identifier or an empty region is not used: the current zone is not set
\* from it, the inventory lookup is not called, and setup goes on to the
\* override of AWS_ZONE_ID, as it does after a lookup that failed
C30_IncompleteIdentityIgnored ==
    /\ \A r \in LookupResults :
           (~r.err /\ (r.az = EmptyString \/ r.region = EmptyString))
               => ~UsesIdentity(r)
    /\ IdentityIncomplete => FellThroughToOverride
    /\ (imds.called /\ imds.err) => FellThroughToOverride

\* the identity lookup returned use1-az1 and an empty region; setup took
\* usw2-az2 from the override and added the plugin with a declared range
C30_Witness ==
    /\ SetupReturned
    /\ IdentityIncomplete
    /\ imds.az = ZoneUse1Az1
    /\ imds.region = EmptyString
    /\ envRead
    /\ currentAvailabilityZoneId = ZoneUsw2Az2
    /\ DOMAIN Zones = {ZoneUsw2Az2}
    /\ PluginAdded

====
